---- MODULE Spec2Model ----
(***************************************************************************)
(* djfapi: the write direction of the schema <-> model transfer engine     *)
(* (utils/pydantic_django/pydantic_to_django.py, transfer_to_orm) and the  *)
(* field-access checker (utils/pydantic_django/checks.py).                 *)
(*                                                                         *)
(* djfapi is a library: transfer_to_orm and check_field_access interpret   *)
(* the field metadata of whatever pydantic schema they are handed.  The    *)
(* operators below interpret field descriptors the same way; the schema    *)
(* they are run on is the Order example of the specification (an order     *)
(* row with a status column, a same-row nested address, a method-backed    *)
(* pin, a reverse one-to-many list of lines and a many-to-many list of     *)
(* tags kept in a through table).                                          *)
(*                                                                         *)
(* Encoding.  Python's None is the number None (0); identifiers and column *)
(* values are positive numbers, so `if x` on them is x # None.  A value    *)
(* that is a schema instance or None, and a list of instances, is a        *)
(* sequence of instances (empty for None and for []: the code tests both   *)
(* with `not value`).  Model ids are assigned when an instance is built    *)
(* (the id column has a default generator, as the string ids of            *)
(* models/user.py suggest), so save() is update-else-insert by pk.         *)
(***************************************************************************)
EXTENDS Integers, Sequences, FiniteSets, TLC

VARIABLES
  db,      \* the stored rows: a set of [model, id, cols]
  nextId,  \* the next identifier the id default generator hands out
  call,    \* the last call made: its arguments and what it did
  ncalls   \* how many calls were made

vars == <<db, nextId, call, ncalls>>

None == 0

\* ------------------------------------------------------------------ bounds
MaxId == 3       \* identifiers a client may put into a list element: 1..MaxId
MaxLen == 2      \* longest incoming list
MaxRepeat == 1   \* how often a call is applied again with the same arguments

Ids == 1..MaxId

\* --------------------------------------------------------- the Order schema
\* Scope strings of the example (service.resource.action.selector).
ScopeStatus == "orders.update.status"
ScopeAny == "orders.update.any"
Scopes == {ScopeStatus, ScopeAny}

\* A field of a schema class, as pydantic's ModelField and its
\* field_info.extra give it.  kind is what the extra holds:
\*   "column"   orm_field is a column descriptor (attname)
\*   "method"   orm_method is set (it writes attname)
\*   "unbound"  orm_field is explicitly None
\*   "missing"  no orm_field key, the type is no schema class
\*   "nested"   no orm_field key, the type is a schema class (same-row schema)
\*   "m2m"      orm_field is a ManyToManyDescriptor
\*   "reverse"  orm_field is a ReverseManyToOneDescriptor
\* For a list field, rel names the related model (the through model of a
\* many-to-many field), its column pointing at the parent (source) and, for
\* many-to-many, its column pointing at the target; sync_matching is the
\* extra's list of (schema field, column) pairs, empty when the key is absent.
Field(name, shape, kind, attname, type_, scopes, is_critical, default) ==
  [name |-> name, shape |-> shape, kind |-> kind, attname |-> attname,
   type_ |-> type_, scopes |-> scopes, is_critical |-> is_critical,
   default |-> default,
   rel |-> [model |-> "", source |-> "", target |-> ""],
   sync_matching |-> <<>>]

Related(f, model, source, target) ==
  [f EXCEPT !.rel = [model |-> model, source |-> source, target |-> target]]

Fields(cls) ==
  CASE cls = "OrderIn" ->
        << Field("status", "singleton", "column", "status", "", <<ScopeStatus, ScopeAny>>, FALSE, None),
           Field("address", "singleton", "nested", "", "AddressIn", <<>>, FALSE, None),
           Field("pin", "singleton", "method", "pin", "", <<ScopeAny>>, TRUE, None),
           Related(Field("lines", "list", "reverse", "lines", "LineIn", <<>>, FALSE, None),
                   "Line", "order_id", ""),
           Related(Field("tags", "list", "m2m", "tags", "TagIn", <<>>, FALSE, None),
                   "Link", "order_id", "tag_id") >>
    [] cls = "AddressIn" ->
        << Field("city", "singleton", "column", "city", "", <<>>, TRUE, None) >>
    [] cls = "LineIn" ->
        << Field("id", "singleton", "unbound", "", "", <<>>, FALSE, None),
           Field("qty", "singleton", "column", "qty", "", <<ScopeStatus>>, FALSE, None) >>
    [] cls = "TagIn" ->
        << Field("id", "singleton", "column", "tag_id", "", <<>>, FALSE, None) >>
    [] cls = "ItemIn" ->
        << Field("status", "singleton", "column", "status", "", <<>>, FALSE, None) >>
    \* A schema whose nested branch carries the scopes itself.
    [] cls = "ParcelIn" ->
        << Field("address", "singleton", "nested", "", "AddressIn", <<ScopeAny>>, FALSE, None),
           Field("status", "singleton", "column", "status", "", <<>>, FALSE, None) >>

\* A schema instance: its class, __fields_set__ and its attribute values
\* (an unset field holds its default).
Instance(cls, set, val) == [cls |-> cls, set |-> set, val |-> val]

\* ------------------------------------------------------------ access token
\* AccessToken.has_audience: the first candidate found in the token's
\* audience list, else None; <<a>> and <<>> here, and callers test `not`.
\* A variant that looks at the first candidate only.
has_audience_first_only(token, audiences) ==
  IF audiences # <<>> /\ Head(audiences) \in token.aud
    THEN <<Head(audiences)>> ELSE <<>>

RECURSIVE has_audience(_, _)
has_audience(token, audiences) ==
  IF audiences = <<>> THEN <<>>
  ELSE IF Head(audiences) \in token.aud THEN <<Head(audiences)>>
       ELSE has_audience(token, Tail(audiences))

\* ------------------------------------------------------ check_field_access
\* input.dict(exclude_unset=True): the keys of the fields that were set, in
\* field order; the values are read off the instance.
\* A variant that keeps the unset fields too: input.dict().
dict_with_unset(inst) == Fields(inst.cls)

dict_exclude_unset(inst) ==
  SelectSeq(Fields(inst.cls), LAMBDA f: f.name \in inst.set)

\* isinstance(value, dict) for a value of input.dict(): a schema instance
\* turned into a dict.  None, scalars and lists are not dicts.
IsDict(f, value) ==
  /\ f.shape = "singleton"
  /\ f.type_ # ""
  /\ value # <<>>

\* e's value handed to F: `x = e; F(x)`.
Bind(e, F(_)) == CHOOSE y \in {F(x) : x \in {e}} : TRUE

NoViolation == [code |-> "", loc |-> <<>>, status_code |-> None, evaluated |-> {}]

\* raise AccessError(detail=dict(type=code, loc=loc)): status_code defaults
\* to 403.
AccessErrorStatus == 403
AccessError(res, code, loc) ==
  [res EXCEPT !.code = code, !.loc = loc, !.status_code = AccessErrorStatus]

\* checks.py check(): walk the set keys; recurse into dict values, test the
\* scopes / is_critical annotation of every other key; the first violation
\* raises.  evaluated collects the locations whose annotation was read.
RECURSIVE check(_, _, _, _, _)
check(model, keys, token, loc, res) ==
  IF keys = <<>> \/ res.code # "" THEN res
  ELSE
    LET f == Head(keys)
        value == model.val[f.name]
        here == loc \o <<f.name>>
        read == [res EXCEPT !.evaluated = @ \cup {here}]
    IN Bind(IF IsDict(f, value)
              THEN check(value[1], dict_exclude_unset(value[1]), token, here, res)
            ELSE IF f.scopes # <<>>
              THEN IF has_audience(token, f.scopes) = <<>>
                     THEN AccessError(read, "access_error.field", here)
                     ELSE read
            ELSE IF f.is_critical
              THEN IF ~token.crt
                     THEN AccessError(read, "access_error.field_is_critical", here)
                     ELSE read
            ELSE read,
            LAMBDA r : check(model, Tail(keys), token, loc, r))

check_field_access(input, token) ==
  check(input, dict_exclude_unset(input), token, <<"body">>, NoViolation)

\* ---------------------------------------------------------------- the ORM
\* A model instance, in memory or stored: [model, id, cols].
Columns(model) ==
  CASE model = "Order" -> [status |-> None, city |-> None, pin |-> None]
    [] model = "Line" -> [order_id |-> None, qty |-> None]
    [] model = "Link" -> [order_id |-> None, tag_id |-> None]
    [] model = "Item" -> [tenant_id |-> None, status |-> None]
    [] model = "Part" -> [tenant_id |-> None, item_id |-> None, status |-> None]

\* related_model(**fields): a new instance; id is the generated default
\* unless the fields carry one.
NewInstance(model, id) == [model |-> model, id |-> id, cols |-> Columns(model)]

\* setattr(django_obj, attname, value)
SetAttr(obj, attname, value) == [obj EXCEPT !.cols[attname] = value]

SameRow(r, obj) == r.model = obj.model /\ r.id = obj.id

\* obj.save(): update the row with this pk, insert it when there is none.
Save(d, obj) == {r \in d : ~SameRow(r, obj)} \cup {obj}

\* obj.delete()
Delete(d, obj) == {r \in d : ~SameRow(r, obj)}

\* related_model.objects.filter(<source>=parent)
FilterRelated(d, model, source, parent) ==
  {r \in d : r.model = model /\ r.cols[source] = parent.id}

\* A queryset as a list, in pk order.
RECURSIVE Ordered(_)
Ordered(rows) ==
  IF rows = {} THEN <<>>
  ELSE LET first == CHOOSE r \in rows : \A q \in rows : r.id <= q.id
       IN <<first>> \o Ordered(rows \ {first})

\* One event of a call: a field-access check, an attribute assignment, an
\* orm method invocation, a save or a delete; depth 0 is the top-level call.
Event(op, obj, attr, depth) ==
  [op |-> op, model |-> obj.model, id |-> obj.id, attr |-> attr, depth |-> depth]

\* ----------------------------------------------------------- TransferAction
CREATE == "CREATE"
SYNC == "SYNC"
NO_SUBOBJECTS == "NO_SUBOBJECTS"
NoAction == "None"

\* ---------------------------------------------------------- transfer_to_orm
\* The state the body of transfer_to_orm carries from field to field:
\*   obj    django_obj as mutated so far
\*   subs   subobjects, exist: existing_objects
\*   err    the exception raised ("" while none is)
\*   ev     the events so far, next: the id generator's next value
\*   d      the database
\*   made   the instances get_subobj constructed, kept: those it looked up
Raise(st, err) == [st EXCEPT !.err = err]

RECURSIVE populate_default(_, _, _)
RECURSIVE transfer_to_orm(_, _, _, _)
RECURSIVE transfer_fields(_, _, _, _, _)
RECURSIVE transfer_list(_, _, _, _, _, _, _)

\* populate_default(pydantic_cls, django_obj): reset the bound columns of a
\* nested same-row schema to the fields' defaults.
populate_default(fields, st, depth) ==
  IF fields = <<>> \/ st.err # "" THEN st
  ELSE
    LET f == Head(fields)
        bound == f.kind \in {"column", "m2m", "reverse"}
    IN Bind(IF ~bound /\ f.type_ # ""
              THEN populate_default(Fields(f.type_), st, depth)
            ELSE IF f.kind = "unbound" THEN st
            ELSE IF ~bound THEN Raise(st, "AssertionError")
            ELSE [st EXCEPT !.obj = SetAttr(@, f.attname, f.default),
                            !.ev = Append(@, Event("setattr", st.obj, f.attname, depth))],
            LAMBDA s1 : populate_default(Tail(fields), s1, depth))

\* Persisting inside `with atomic()`: ops are applied in order; the op
\* numbered fail_at raises a database error.  Returns the state with the
\* database after the ops that ran.
RECURSIVE RunOps(_, _, _, _, _)
RunOps(ops, st, n, fail_at, depth) ==
  IF ops = <<>> \/ st.err # "" THEN st
  ELSE
    LET o == Head(ops)
    IN Bind(IF n = fail_at THEN Raise(st, "DatabaseError")
            ELSE [st EXCEPT !.d = IF o.op = "save" THEN Save(@, o.obj) ELSE Delete(@, o.obj),
                            !.ev = Append(@, Event(o.op, o.obj, "", depth))],
            LAMBDA s1 : RunOps(Tail(ops), s1, n + 1, fail_at, depth))

Op(op, obj) == [op |-> op, obj |-> obj]
OpsOf(op, objs) == [i \in 1..Len(objs) |-> Op(op, objs[i])]

\* Lines 296-306: django_obj.save(), then for SYNC the deletes of
\* existing_objects, then the saves of subobjects.
PersistOps(action, st) ==
  <<Op("save", st.obj)>>
  \o (IF action \in {CREATE, SYNC}
        THEN (IF action = SYNC THEN OpsOf("delete", st.exist) ELSE <<>>)
             \o OpsOf("save", st.subs)
        ELSE <<>>)

\* A block without a transaction: what was written stays.
NoAtomic(before, st) == st

\* with atomic(): a raise inside the block rolls the database back to what
\* it was on entry.
Atomic(before, st) == IF st.err # "" THEN [st EXCEPT !.d = before] ELSE st

\* The environment a call runs in: the database, the id generator, the
\* events and the constructed / looked-up instances so far, the depth of the
\* call, _just_return_objs, and which persistence op fails (0: none).
Env(st, depth, just_return_objs, fail_at) ==
  [d |-> st.d, next |-> st.next, ev |-> st.ev, made |-> st.made, kept |-> st.kept,
   depth |-> depth, just_return_objs |-> just_return_objs, fail_at |-> fail_at]

\* A sub-transfer that is not told to just return its objects.
SubTransferPersisting(val, obj, args, st, depth) ==
  transfer_to_orm(val, obj, [args EXCEPT !.created_submodels = <<>>],
                  Env(st, depth + 1, FALSE, 0))

\* The sub-transfer of lines 146, 209 and 278: the same exclude_unset, access
\* and action, no created_submodels, _just_return_objs=True.
SubTransfer(val, obj, args, st, depth) ==
  transfer_to_orm(val, obj, [args EXCEPT !.created_submodels = <<>>],
                  Env(st, depth + 1, TRUE, 0))

\* What a sub-transfer hands back to its caller's state: the lists it
\* returned are appended, the rest is what it left.
Merge(st, sub, subs, obj) ==
  [st EXCEPT !.obj = obj, !.subs = @ \o subs, !.exist = @ \o sub.exist,
             !.made = sub.made, !.kept = sub.kept, !.err = sub.err,
             !.ev = sub.ev, !.next = sub.next, !.d = sub.d]

\* A get_subobj that never looks a row up: it constructs one every time.
get_subobj_no_lookup(f, val, action, st, root) ==
  LET fresh == [NewInstance(f.rel.model, st.next) EXCEPT !.cols[f.rel.source] = root.id]
  IN [err |-> "",
      obj |-> IF f.kind = "m2m" THEN [fresh EXCEPT !.cols[f.rel.target] = val.val.id]
              ELSE IF val.val.id # None THEN [fresh EXCEPT !.id = val.val.id]
              ELSE fresh,
      made |-> TRUE]

\* get_subobj (lines 185-204 and 226-273) for the element val of the list
\* field f of root: [err, obj, made]; made says the instance was constructed
\* and not looked up.
get_subobj(f, val, action, st, root) ==
  LET val_id == IF "id" \in DOMAIN val.val THEN val.val.id ELSE None
      rel == f.rel
      fresh == [NewInstance(rel.model, st.next) EXCEPT !.cols[rel.source] = root.id]
      related == FilterRelated(st.d, rel.model, rel.source, root)
      built == IF f.kind = "m2m" THEN [fresh EXCEPT !.cols[rel.target] = val_id]
               ELSE IF val_id # None THEN [fresh EXCEPT !.id = val_id]
               ELSE fresh
      found == IF f.kind = "m2m" THEN {r \in related : r.cols[rel.target] = val_id}
               ELSE IF val_id # None THEN {r \in related : r.id = val_id}
               ELSE {r \in related :
                       \A i \in 1..Len(f.sync_matching) :
                         r.cols[f.sync_matching[i][2]] = val.val[f.sync_matching[i][1]]}
      force_create == /\ f.kind = "reverse"
                      /\ action = SYNC
                      /\ val_id = None
                      /\ f.sync_matching = <<>>
  IN IF f.kind = "m2m" /\ val_id = None
       THEN [err |-> "NotImplementedError", obj |-> built, made |-> FALSE]
     ELSE IF force_create \/ action = CREATE
       THEN [err |-> "", obj |-> built, made |-> TRUE]
     ELSE IF action = SYNC
       THEN IF Cardinality(found) = 1
              THEN [err |-> "", obj |-> CHOOSE r \in found : TRUE, made |-> FALSE]
            ELSE IF found = {}
              THEN [err |-> "", obj |-> built, made |-> TRUE]
            ELSE [err |-> "MultipleObjectsReturned", obj |-> built, made |-> FALSE]
     ELSE [err |-> "NotImplementedError", obj |-> built, made |-> FALSE]

\* Lines 184-211 and 225-280: the loop over the elements of an incoming
\* list; ids is existing_object_ids.  Returns the state and the ids left.
transfer_list(f, vals, ids, args, st, depth, root) ==
  IF vals = <<>> \/ st.err # "" THEN [st |-> st, ids |-> ids]
  ELSE
    Bind(get_subobj(f, Head(vals), args.action, st, root), LAMBDA got :
      IF got.err # "" THEN [st |-> Raise(st, got.err), ids |-> ids]
      ELSE
        Bind([st EXCEPT !.next = IF got.made /\ got.obj.id = @ THEN @ + 1 ELSE @,
                        !.made = IF got.made THEN Append(@, got.obj) ELSE @,
                        !.kept = IF got.made THEN @ ELSE Append(@, got.obj)],
             LAMBDA s0 :
          Bind(SubTransfer(Head(vals), got.obj, args, s0, depth), LAMBDA sub :
            Bind(Merge(s0, sub, <<sub.obj>> \o sub.subs, s0.obj), LAMBDA s1 :
              transfer_list(f, Tail(vals), ids \ {got.obj.id}, args, s1, depth, root)))))

\* A list-valued field that is passed over.
transfer_list_field_skipped(f, value, args, st, depth) == st

\* Lines 172-288: a list-valued field.
transfer_list_field(f, value, args, st, depth) ==
  IF value = <<>> THEN st
  ELSE IF f.kind \in {"m2m", "reverse"} THEN
    LET existing_object_ids ==
          IF args.action = SYNC
            THEN {r.id : r \in FilterRelated(st.d, f.rel.model, f.rel.source, st.obj)}
            ELSE {}
    IN Bind(transfer_list(f, value, existing_object_ids, args, st, depth, st.obj),
            LAMBDA done :
              IF done.st.err # "" THEN done.st
              ELSE [done.st EXCEPT !.exist =
                      @ \o Ordered({r \in st.d : r.model = f.rel.model /\ r.id \in done.ids})])
  ELSE Raise(st, "NotImplementedError")

\* Lines 114-170: one field of pydantic_obj.__fields__.
transfer_field(pydantic_obj, f, args, st, depth) ==
  LET value == pydantic_obj.val[f.name]
      unset == args.exclude_unset /\ f.name \notin pydantic_obj.set
  IN
    IF f.kind = "method" THEN
      IF unset THEN st
      ELSE [st EXCEPT !.obj = SetAttr(@, f.attname, value),
                      !.ev = Append(@, Event("orm_method", st.obj, f.attname, depth))]
    ELSE IF f.kind = "unbound" THEN st
    ELSE IF f.kind = "missing" \/ (f.kind = "nested" /\ f.shape # "singleton")
      THEN Raise(st, "AttributeError")
    ELSE IF f.shape = "singleton" THEN
      IF f.kind = "nested" THEN
        IF value = <<>> THEN
          IF unset THEN st ELSE populate_default(Fields(f.type_), st, depth)
        ELSE
          Bind(SubTransfer(value[1], st.obj, args, st, depth),
               LAMBDA sub : Merge(st, sub, sub.subs, sub.obj))
      ELSE
        IF unset THEN st
        ELSE [st EXCEPT !.obj = SetAttr(@, f.attname, value),
                        !.ev = Append(@, Event("setattr", st.obj, f.attname, depth))]
    ELSE IF f.shape = "list" THEN transfer_list_field(f, value, args, st, depth)
    ELSE Raise(st, "NotImplementedError")

\* Lines 114-288: the loop over pydantic_obj.__fields__.
transfer_fields(pydantic_obj, fields, args, st, depth) ==
  IF fields = <<>> \/ st.err # "" THEN st
  ELSE Bind(transfer_field(pydantic_obj, Head(fields), args, st, depth),
            LAMBDA s1 : transfer_fields(pydantic_obj, Tail(fields), args, s1, depth))

\* Lines 90-91: check_field_access when an access context is given.
CheckAccess(pydantic_obj, django_obj, access, st, depth) ==
  IF access = <<>> THEN st
  ELSE Bind(check_field_access(pydantic_obj, access[1]), LAMBDA chk :
         Raise([st EXCEPT !.ev = Append(@, Event("check", django_obj, "", depth))],
               chk.code))

\* Lines 290-306: the usage error, the early return of a sub-transfer, the
\* atomic block.
Finish(action, given, st, env) ==
  IF st.err # "" THEN st
  ELSE IF st.subs # <<>> /\ action = NoAction THEN Raise(st, "AssertionError")
  ELSE IF env.just_return_objs THEN st
  ELSE IF action \in {CREATE, SYNC, NO_SUBOBJECTS} /\ ~given
    THEN Atomic(st.d, RunOps(PersistOps(action, st), st, 1, env.fail_at, env.depth))
  ELSE st

\* transfer_to_orm(pydantic_obj, django_obj, action=, exclude_unset=, access=,
\* created_submodels=, _just_return_objs=).  args holds the keyword
\* arguments [action, exclude_unset, access, created_submodels]: access is
\* <<>> for None and <<token>> otherwise, created_submodels <<>> for None and
\* <<list>> otherwise.  The synchronous path is modelled (is_async() false).
transfer_to_orm(pydantic_obj, django_obj, args, env) ==
  LET given == args.created_submodels # <<>>
      action == IF given /\ args.created_submodels[1] # <<>> THEN CREATE ELSE args.action
      st0 == [obj |-> django_obj,
              subs |-> IF given THEN args.created_submodels[1] ELSE <<>>,
              exist |-> <<>>, made |-> env.made, kept |-> env.kept,
              err |-> "", ev |-> env.ev, next |-> env.next, d |-> env.d]
  IN Bind(CheckAccess(pydantic_obj, django_obj, args.access, st0, env.depth), LAMBDA st1 :
       Bind(transfer_fields(pydantic_obj, Fields(pydantic_obj.cls),
                            [args EXCEPT !.action = action], st1, env.depth),
            LAMBDA st2 : Bind(Finish(action, given, st2, env), LAMBDA st3 : st3)))

\* ------------------------------------------------------------------ inputs
\* Sequences over S of length lo..hi.
SeqsOf(S, lo, hi) == UNION {[1..n -> S] : n \in lo..hi}

Line(id, parent, qty) ==
  [model |-> "Line", id |-> id, cols |-> [order_id |-> parent, qty |-> qty]]
Link(id, parent, tag) ==
  [model |-> "Link", id |-> id, cols |-> [order_id |-> parent, tag_id |-> tag]]
Order(id, status) ==
  [model |-> "Order", id |-> id, cols |-> [status |-> status, city |-> 1, pin |-> 1]]

\* Incoming list elements: a line with or without an identifier, a tag
\* reference with or without one.
LineIn(id) ==
  Instance("LineIn", IF id = None THEN {"qty"} ELSE {"id", "qty"}, [id |-> id, qty |-> 2])
TagIn(id) ==
  Instance("TagIn", IF id = None THEN {} ELSE {"id"}, [id |-> id])
AddressIn(set) ==
  Instance("AddressIn", set, [city |-> IF "city" \in set THEN 2 ELSE None])

\* An OrderIn with the given fields set; the others hold their defaults.
OrderIn(set, address, lines, tags) ==
  Instance("OrderIn", set,
           [status |-> IF "status" \in set THEN 2 ELSE None,
            address |-> address,
            pin |-> IF "pin" \in set THEN 2 ELSE None,
            lines |-> lines, tags |-> tags])

LineLists == {[i \in DOMAIN l |-> LineIn(l[i])] : l \in SeqsOf(Ids \cup {None}, 0, MaxLen)}
TagLists == {[i \in DOMAIN l |-> TagIn(l[i])] : l \in SeqsOf(Ids \cup {None}, 0, MaxLen)}

Tokens == [aud : SUBSET Scopes, crt : BOOLEAN]

Args(action, exclude_unset, access, created_submodels) ==
  [action |-> action, exclude_unset |-> exclude_unset, access |-> access,
   created_submodels |-> created_submodels]

\* One top-level call: the schema instance, the instance it is applied to
\* (root: the id of a stored order, or None for a new Order()), the keyword
\* arguments and the persistence op that fails.
Call(pydantic_obj, root, args, fail_at) ==
  [pydantic_obj |-> pydantic_obj, root |-> root, args |-> args, fail_at |-> fail_at]

Actions == {NoAction, CREATE, SYNC, NO_SUBOBJECTS}

\* Calls that vary the incoming to-many lists.
ListCalls ==
  {Call(OrderIn({"status", "lines"}, <<>>, l, <<>>), 1, Args(a, FALSE, <<>>, <<>>), 0) :
     l \in LineLists, a \in Actions}
  \cup
  {Call(OrderIn({"status", "tags"}, <<>>, <<>>, l), 1, Args(a, FALSE, <<>>, <<>>), 0) :
     l \in TagLists, a \in Actions}

\* Calls during which the database raises, on a stored and on a new order.
FailingCalls ==
  {Call(OrderIn({"status", "lines"}, <<>>, l, <<>>), root, Args(a, FALSE, <<>>, <<>>), k) :
     l \in {x \in LineLists : Len(x) = 1}, root \in {1, None}, a \in {CREATE, SYNC},
     k \in 0..3}
  \cup
  {Call(OrderIn({"status", "tags"}, <<>>, <<>>, l), root, Args(a, FALSE, <<>>, <<>>), k) :
     l \in {x \in TagLists : Len(x) = 1 /\ x[1].val.id # None}, root \in {1, None},
     a \in {CREATE, SYNC}, k \in 0..3}

\* Calls that vary the scalar, method-backed and same-row nested fields.
ScalarInputs ==
  {OrderIn(set, address, <<>>, <<>>) :
     set \in SUBSET {"status", "address", "pin"},
     address \in {<<>>, <<AddressIn({})>>, <<AddressIn({"city"})>>}}

\* An unset field holds its default.
WellFormed(p) == "address" \notin p.set => p.val.address = <<>>

ScalarCalls ==
  {Call(p, 1, Args(a, x, <<>>, <<>>), 0) :
     p \in {q \in ScalarInputs : WellFormed(q)},
     a \in {NO_SUBOBJECTS, SYNC}, x \in BOOLEAN}

\* Calls made with an access context.
AccessCalls ==
  {Call(p, 1, Args(a, a = NO_SUBOBJECTS, <<t>>, <<>>), 0) :
     p \in {OrderIn({"status"}, <<>>, <<>>, <<>>),
            OrderIn({"pin"}, <<>>, <<>>, <<>>),
            OrderIn({"address"}, <<AddressIn({"city"})>>, <<>>, <<>>),
            OrderIn({"status", "address"}, <<AddressIn({"city"})>>, <<>>, <<>>),
            OrderIn({"lines"}, <<>>, <<LineIn(1)>>, <<>>),
            OrderIn({"pin", "lines"}, <<>>, <<LineIn(1), LineIn(None)>>, <<>>)},
     a \in {NO_SUBOBJECTS, SYNC, CREATE}, t \in Tokens}

\* Calls of the deprecated form, with created_submodels.
DeprecatedCalls ==
  {Call(OrderIn({"status", "lines"}, <<>>, <<LineIn(None)>>, <<>>), 1,
        Args(NoAction, FALSE, <<>>, <<c>>), 0) :
     c \in {<<>>, <<Line(MaxId, 2, 1)>>}}

TransferCalls == ListCalls \cup FailingCalls \cup ScalarCalls \cup AccessCalls \cup DeprecatedCalls

\* ------------------------------------------------------------- state machine
\* The stored state a call starts from: orders 1 and 2, and either lines or
\* links: every identifier is free or belongs to order 1; the last one may
\* belong to order 2.  Link i points at tag MaxId + 1 - i.
Seeds == {p \in [Ids -> {None, 1, 2}] : \A i \in Ids : p[i] = 2 => i = MaxId}

Init ==
  /\ \E p \in Seeds :
       \/ db = {Order(1, 1), Order(2, 1)} \cup {Line(i, p[i], 1) : i \in {j \in Ids : p[j] # None}}
       \/ db = {Order(1, 1), Order(2, 1)} \cup {Link(i, p[i], MaxId + 1 - i) : i \in {j \in Ids : p[j] # None}}
  /\ nextId = MaxId + 1
  /\ call = [op |-> "none"]
  /\ ncalls = 0

\* A top-level call of transfer_to_orm on django_obj.
Apply(c, django_obj, next) ==
  LET env == [d |-> db, next |-> next, ev |-> <<>>, made |-> <<>>, kept |-> <<>>,
              depth |-> 0, just_return_objs |-> FALSE, fail_at |-> c.fail_at]
  IN \E r \in {transfer_to_orm(c.pydantic_obj, django_obj, c.args, env)} :
     /\ db' = r.d
     /\ nextId' = r.next
     /\ call' = [op |-> "transfer_to_orm", c |-> c, django_obj |-> django_obj,
                 before |-> db, err |-> r.err, obj |-> r.obj, subs |-> r.subs,
                 exist |-> r.exist, made |-> r.made, kept |-> r.kept, ev |-> r.ev]
     /\ ncalls' = ncalls + 1

\* transfer_to_orm applied to a stored order (as object_update does after
\* object_get_by_id) or to a new instance (as object_create does).
TransferToOrm ==
  /\ ncalls = 0
  /\ \E c \in TransferCalls :
       IF c.root = None
         THEN Apply(c, NewInstance("Order", nextId), nextId + 1)
         ELSE \E o \in {r \in db : r.model = "Order" /\ r.id = c.root} : Apply(c, o, nextId)

\* The caller's arguments after a call.  Line 87, `subobjects =
\* created_submodels or []`: a non-empty created_submodels list is itself
\* the list the call appends its subobjects to, so the caller's list holds
\* them afterwards; None and an empty list are left as they were.
ArgsAfter(c, subs) ==
  IF c.args.created_submodels # <<>> /\ c.args.created_submodels[1] # <<>>
    THEN [c EXCEPT !.args.created_submodels = <<subs>>]
    ELSE c

\* The same call applied again: the same schema instance, argument objects
\* and model instance, against the state the previous application produced.
TransferAgain ==
  /\ ncalls \in 1..MaxRepeat
  /\ call.op = "transfer_to_orm"
  /\ Apply(ArgsAfter(call.c, call.subs), call.obj, nextId)

Next == TransferToOrm \/ TransferAgain

Spec == Init /\ [][Next]_vars

\* check_field_access on its own: the inputs are order schemas with any of
\* status, address, pin and lines set, and every token.
CheckInputs ==
  {p \in {OrderIn(set, address, lines, <<>>) :
            set \in SUBSET {"status", "address", "pin", "lines"},
            address \in {<<>>, <<AddressIn({})>>, <<AddressIn({"city"})>>},
            lines \in {x \in LineLists : Len(x) <= 1}} :
     WellFormed(p) /\ ("lines" \notin p.set => p.val.lines = <<>>)}
  \cup
  {p \in {Instance("ParcelIn", set, [address |-> address, status |-> 1]) :
            set \in SUBSET {"address", "status"},
            address \in {<<>>, <<AddressIn({})>>, <<AddressIn({"city"})>>}} :
     WellFormed(p)}

InitCheck ==
  /\ db = {Order(1, 1), Order(2, 1)}
  /\ nextId = MaxId + 1
  /\ call = [op |-> "none"]
  /\ ncalls = 0

CheckFieldAccess ==
  /\ \E input \in CheckInputs, token \in Tokens :
       call' = [op |-> "check_field_access", input |-> input, token |-> token,
                result |-> check_field_access(input, token)]
  /\ UNCHANGED <<db, nextId, ncalls>>

NextCheck == CheckFieldAccess

SpecCheck == InitCheck /\ [][NextCheck]_vars

\* ------------------------------------------------------------------ claims
IsTransfer == call.op = "transfer_to_orm"

\* The call ran with the given action and without created_submodels.
Ran(action) ==
  /\ IsTransfer
  /\ call.c.args.action = action
  /\ call.c.args.created_submodels = <<>>

ListFields ==
  {f \in {Fields("OrderIn")[i] : i \in 1..Len(Fields("OrderIn"))} : f.shape = "list"}

\* What identifies a related row to the client: the row's id in a reverse
\* one-to-many relation, the target's id in a many-to-many relation.
RelKey(f, r) == IF f.kind = "m2m" THEN r.cols[f.rel.target] ELSE r.id

Incoming(f) == call.c.pydantic_obj.val[f.name]
IncomingIds(f) == {Incoming(f)[i].val.id : i \in 1..Len(Incoming(f))}

\* The rows of the root's relation f in database d.
Persisted(f, d) == FilterRelated(d, f.rel.model, f.rel.source, call.django_obj)

Range(seq) == {seq[i] : i \in 1..Len(seq)}
EventsOf(ops) == {i \in 1..Len(call.ev) : call.ev[i].op \in ops}
IdsOf(op, model) ==
  {call.ev[i].id : i \in {j \in EventsOf({op}) : call.ev[j].model = model}}

\* A successful SYNC call whose list for f is non-empty and references ids.
SyncCase(f) ==
  /\ Ran(SYNC)
  /\ call.err = ""
  /\ Incoming(f) # <<>>
  /\ None \notin IncomingIds(f)

\* C1 (SYNC set reconciliation): with E the persisted related ids of the
\* root's relation and I the ids the non-empty incoming list references, the
\* call constructs rows for exactly I \ E, looks up exactly the stored rows
\* I \cap E (and saves them, without adding a second row for any of them),
\* deletes exactly the rows E \ I, and leaves the relation holding I.
C1_SyncDiff ==
  \A f \in ListFields :
    SyncCase(f) =>
      LET E_rows == Persisted(f, call.before)
          E == {RelKey(f, r) : r \in E_rows}
          I == IncomingIds(f)
          madeRows == {o \in Range(call.made) : o.model = f.rel.model}
          keptRows == {o \in Range(call.kept) : o.model = f.rel.model}
      IN /\ {RelKey(f, o) : o \in madeRows} = I \ E
         /\ {RelKey(f, o) : o \in keptRows} = I \cap E
         /\ keptRows \subseteq E_rows
         /\ {o.id : o \in madeRows \cup keptRows} = IdsOf("save", f.rel.model)
         /\ IdsOf("delete", f.rel.model) = {r.id : r \in {q \in E_rows : RelKey(f, q) \notin I}}
         /\ {RelKey(f, r) : r \in Persisted(f, db)} = I
         /\ \A k \in I \cap E :
              {r.id : r \in {q \in Persisted(f, db) : RelKey(f, q) = k}}
                = {r.id : r \in {q \in E_rows : RelKey(f, q) = k}}

\* C1's case: a SYNC that creates, keeps and deletes at once.
C1_Witness ==
  \E f \in ListFields :
    /\ SyncCase(f)
    /\ LET E == {RelKey(f, r) : r \in Persisted(f, call.before)}
           I == IncomingIds(f)
       IN I \ E # {} /\ I \cap E # {} /\ E \ I # {}

RowKeys(d) == {<<r.model, r.id>> : r \in d}

\* C2 (SYNC idempotence): applying a successful SYNC call again, with the
\* same schema instance on the same model instance, against the state the
\* first application produced, inserts no row and deletes no row.
C2_SyncIdempotent ==
  [][(Ran(SYNC) /\ call.err = "" /\ ncalls' = ncalls + 1 /\ call'.c = call.c)
       => RowKeys(db') = RowKeys(db)]_vars

\* C3 (transaction atomicity): when a save or delete raises inside a CREATE
\* or SYNC call, storage is what it was before the call.
C3_AtomicRollback ==
  (IsTransfer /\ call.c.args.action \in {CREATE, SYNC} /\ call.err = "DatabaseError")
    => db = call.before

\* C3's case: a new root was saved and a later subobject operation raised.
C3_Witness ==
  /\ IsTransfer
  /\ call.c.args.action \in {CREATE, SYNC}
  /\ call.err = "DatabaseError"
  /\ call.c.root = None
  /\ call.django_obj.id \in IdsOf("save", "Order")
  /\ call.c.fail_at >= 2

\* C4 (deletes after saves): in a SYNC call every delete of a displaced row
\* comes after every save of a subobject.
C4_DeletesAfterSaves ==
  Ran(SYNC) =>
    \A i \in EventsOf({"delete"}), j \in EventsOf({"save"}) :
      call.ev[j].model # "Order" => j < i

\* C5 (root first, persistence at the top only): every save and delete of a
\* call is made by the top-level call, after every sub-transfer has
\* returned, and the first of them is the save of the root instance.
C5_RootFirstTopLevelOnly ==
  IsTransfer =>
    LET P == EventsOf({"save", "delete"})
    IN /\ \A i \in P : call.ev[i].depth = 0
       /\ \A i \in P, j \in 1..Len(call.ev) : call.ev[j].depth > 0 => j < i
       /\ \A i \in P :
            (\A j \in P : i <= j)
              => /\ call.ev[i].op = "save"
                 /\ call.ev[i].model = call.django_obj.model
                 /\ call.ev[i].id = call.django_obj.id

\* C5's case: sub-transfers ran, and subobjects were saved and deleted.
C5_Witness ==
  /\ IsTransfer
  /\ \E j \in 1..Len(call.ev) : call.ev[j].depth > 0
  /\ IdsOf("save", "Line") # {}
  /\ IdsOf("delete", "Line") # {}

\* C6 (access check first): a call that raises a field-access error has
\* assigned no attribute, invoked no orm method and saved or deleted nothing.
C6_AccessBeforeMutation ==
  (IsTransfer /\ call.c.args.access # <<>>
     /\ call.err \in {"access_error.field", "access_error.field_is_critical"})
    => EventsOf({"setattr", "orm_method", "save", "delete"}) = {}

\* C10 (NO_SUBOBJECTS skips to-many fields): a NO_SUBOBJECTS call without
\* access context completes, saves the root and leaves every related row as
\* it was, whatever the incoming lists hold.
C10_NoSubobjectsSkipsLists ==
  (Ran(NO_SUBOBJECTS) /\ call.c.args.access = <<>> /\ call.c.fail_at = 0)
    => /\ call.err = ""
       /\ call.django_obj.id \in IdsOf("save", "Order")
       /\ {r \in db : r.model # "Order"} = {r \in call.before : r.model # "Order"}

IsCheck == call.op = "check_field_access"

\* The explicitly set leaf fields of a schema instance, in field order,
\* depth first: the set fields of the instance and of the set nested
\* instances whose value is no dict; each with its location.
RECURSIVE SetLeaves(_, _, _)
SetLeaves(inst, fields, loc) ==
  IF fields = <<>> THEN <<>>
  ELSE LET f == Head(fields)
           value == inst.val[f.name]
           here == IF f.name \notin inst.set THEN <<>>
                   ELSE IF IsDict(f, value)
                     THEN SetLeaves(value[1], Fields(value[1].cls), loc \o <<f.name>>)
                   ELSE <<[loc |-> loc \o <<f.name>>, f |-> f]>>
       IN here \o SetLeaves(inst, Tail(fields), loc)

LeavesOf(input) == SetLeaves(input, Fields(input.cls), <<"body">>)

\* The token holds none of the field's required scopes.
ScopeDenied(f, token) ==
  f.scopes # <<>> /\ \A i \in 1..Len(f.scopes) : f.scopes[i] \notin token.aud

\* The field is permitted to the token: one of its scopes is held, and the
\* token is critical if the field is.
Permitted(f, token) == ~ScopeDenied(f, token) /\ (f.is_critical => token.crt)

\* The root fields that were not set and carry required scopes.
AnnotatedUnset(input) ==
  {f \in {Fields(input.cls)[i] : i \in 1..Len(Fields(input.cls))} :
     f.name \notin input.set /\ f.scopes # <<>>}

\* C7 (partial-update invariant): check_field_access reads the scopes /
\* is_critical annotation of explicitly set fields only, and it passes
\* whenever every explicitly set field is permitted to the token, whatever
\* the unset fields require.
C7_UnsetNeverChecked ==
  IsCheck =>
    LET leaves == LeavesOf(call.input)
    IN /\ call.result.evaluated \subseteq {leaves[i].loc : i \in 1..Len(leaves)}
       /\ (\A i \in 1..Len(leaves) : Permitted(leaves[i].f, call.token))
            => call.result.code = ""

\* C7's case: a field is set, an unset field requires scopes the token
\* lacks, and the check passed.
C7_Witness ==
  /\ IsCheck
  /\ call.input.set # {}
  /\ \E f \in AnnotatedUnset(call.input) : ScopeDenied(f, call.token)
  /\ call.result.code = ""

\* C8 (field-scope check): the check raises access_error.field exactly when
\* a set leaf field's required scopes are all missing from the token's
\* audiences: at the first such leaf in field order, with loc 'body' plus
\* the keys leading to it, unless an earlier leaf raised the critical error.
C8_ScopeDeniedIffNoAudience ==
  IsCheck =>
    LET leaves == LeavesOf(call.input)
        denied == {i \in 1..Len(leaves) : ScopeDenied(leaves[i].f, call.token)}
        first == CHOOSE i \in denied : \A j \in denied : i <= j
        at == {i \in 1..Len(leaves) : leaves[i].loc = call.result.loc}
    IN /\ call.result.code = "access_error.field"
            => /\ denied # {}
               /\ call.result.loc = leaves[first].loc
               /\ call.result.status_code = 403
       /\ denied = {} => call.result.code # "access_error.field"
       /\ denied # {} =>
            /\ call.result.code # ""
            /\ call.result.code = "access_error.field_is_critical"
                 => \E i \in at : i < first

\* C8's case: two leaves or more are set, the token holds a scope but none
\* of those a set root leaf requires, and the scope error was raised there.
C8_Witness ==
  /\ IsCheck
  /\ call.result.code = "access_error.field"
  /\ call.token.aud # {}
  /\ Len(call.result.loc) = 2
  /\ Len(LeavesOf(call.input)) >= 2

\* C9 (critical fields): whenever a set leaf field is marked is_critical and
\* the token's critical flag is false, the check raises.
C9_CriticalAlwaysEnforced ==
  IsCheck =>
    LET leaves == LeavesOf(call.input)
    IN (\E i \in 1..Len(leaves) : leaves[i].f.is_critical /\ ~call.token.crt)
         => call.result.code # ""

\* The call was made without an action: none was passed, and no non-empty
\* created_submodels stood in for one.
NoActionGiven ==
  /\ IsTransfer
  /\ call.c.args.action = NoAction
  /\ \/ call.c.args.created_submodels = <<>>
     \/ call.c.args.created_submodels[1] = <<>>

\* C11 (missing action): a call without action whose input holds a
\* non-empty to-many list raises a usage error (the assertion of line 291 or
\* get_subobj's NotImplementedError) and saves or deletes nothing.
C11_MissingActionFails ==
  (NoActionGiven /\ call.c.args.access = <<>>
     /\ \E f \in ListFields : Incoming(f) # <<>>)
    => /\ call.err \in {"AssertionError", "NotImplementedError"}
       /\ EventsOf({"save", "delete"}) = {}
       /\ db = call.before

\* C11's case: no action, a non-empty list of lines, stored lines at stake.
C11_Witness ==
  /\ NoActionGiven
  /\ call.c.args.access = <<>>
  /\ \E f \in ListFields : Incoming(f) # <<>> /\ Persisted(f, call.before) # {}
  /\ call.err # ""

\* C12 (SYNC with an empty list): after a successful SYNC call whose list
\* for a relation was set to the empty list, the relation holds no row.
C12_SyncEmptyListDeletesAll ==
  \A f \in ListFields :
    (Ran(SYNC) /\ call.err = "" /\ f.name \in call.c.pydantic_obj.set
       /\ Incoming(f) = <<>>)
      => Persisted(f, db) = {}

\* ------------------------------------------------- transfer_from_orm (read)
\* Scope strings of the read schema, as their '.'-separated segments
\* (service.resource.action.selector; the selector may be left out).
ScopeReadOwn == <<"shop", "orders", "read", "own">>
ScopeReadAny == <<"shop", "orders", "read", "any">>
ScopeUpdateAny == <<"shop", "orders", "update", "any">>
ScopeReadBare == <<"shop", "lines", "read">>
ReadScopes == {ScopeReadOwn, ScopeReadAny, ScopeUpdateAny, ScopeReadBare}

\* AccessScope.from_str: split on '.', append None, take the first four;
\* selector is <<>> for None.
from_str(scope) ==
  [service |-> scope[1], resource |-> scope[2], action |-> scope[3],
   selector |-> IF Len(scope) >= 4 THEN <<scope[4]>> ELSE <<>>]

\* AccessScope.__str__: the parts joined by '.', after filter() dropped the
\* empty ones (an empty string, or the selector when it is None).
str(scope) ==
  SelectSeq(<<scope.service, scope.resource, scope.action>> \o scope.selector,
            LAMBDA s : s # "")

\* A field of a read schema: Field plus pydantic's required and allow_none.
OutField(name, shape, kind, attname, type_, scopes, required, allow_none) ==
  [name |-> name, shape |-> shape, kind |-> kind, attname |-> attname,
   type_ |-> type_, scopes |-> scopes, required |-> required,
   allow_none |-> allow_none,
   rel |-> [model |-> "", source |-> "", target |-> ""]]

\* The read schema of the Order example; every kind of binding carries a
\* read scope once.
OutFields(cls) ==
  CASE cls = "OrderOut" ->
        << OutField("id", "singleton", "column", "id", "", <<>>, TRUE, FALSE),
           OutField("status", "singleton", "column", "status", "",
                    <<ScopeReadOwn, ScopeReadAny>>, FALSE, TRUE),
           OutField("address", "singleton", "nested", "", "AddressOut",
                    <<ScopeReadAny>>, FALSE, TRUE),
           OutField("pin", "singleton", "method", "pin", "", <<ScopeReadAny>>, FALSE, TRUE),
           OutField("note", "singleton", "unbound", "", "", <<>>, FALSE, TRUE),
           Related(OutField("lines", "list", "reverse", "lines", "LineOut",
                            <<ScopeReadAny>>, FALSE, TRUE),
                   "Line", "order_id", "") >>
    [] cls = "AddressOut" ->
        << OutField("city", "singleton", "column", "city", "", <<>>, TRUE, FALSE) >>
    [] cls = "LineOut" ->
        << OutField("id", "singleton", "column", "id", "", <<>>, TRUE, FALSE),
           OutField("qty", "singleton", "column", "qty", "",
                    <<ScopeUpdateAny, ScopeReadBare>>, FALSE, TRUE) >>
    [] cls = "BrokenOut" ->
        << OutField("id", "singleton", "column", "id", "", <<>>, TRUE, FALSE),
           OutField("extra", "singleton", "missing", "", "", <<>>, FALSE, TRUE) >>
    \* A read schema with nested branches on the same model: sender is a
    \* required branch, receiver an optional one that holds a required
    \* branch of its own.
    [] cls = "ShipmentOut" ->
        << OutField("id", "singleton", "column", "id", "", <<>>, TRUE, FALSE),
           OutField("sender", "singleton", "nested", "", "AddressOut", <<>>, TRUE, FALSE),
           OutField("receiver", "singleton", "nested", "", "ContactOut", <<>>, FALSE, TRUE) >>
    [] cls = "ContactOut" ->
        << OutField("geo", "singleton", "nested", "", "GeoOut", <<>>, TRUE, FALSE),
           OutField("city", "singleton", "column", "city", "", <<>>, TRUE, FALSE) >>
    [] cls = "GeoOut" ->
        << OutField("pin", "singleton", "column", "pin", "", <<>>, TRUE, FALSE) >>

\* getattr(django_obj, attname)
GetAttr(obj, attname) == IF attname = "id" THEN obj.id ELSE obj.cols[attname]

\* A value that may be None: <<>> for None, <<v>> otherwise.
Opt(v) == IF v = None THEN <<>> ELSE <<v>>

\* hasattr(django_obj, 'check_access'): the Order model of the example
\* defines it, the Line model does not.
HasCheckAccess(obj) == obj.model = "Order"

\* What a field transfer hands back: a value, Ellipsis (skip), Break (brk)
\* or an exception (err).
Value(v) == [err |-> "", brk |-> FALSE, skip |-> FALSE, value |-> v]
Ellipsis == [err |-> "", brk |-> FALSE, skip |-> TRUE, value |-> <<>>]
Break == [err |-> "", brk |-> TRUE, skip |-> FALSE, value |-> <<>>]
Raised(err) == [err |-> err, brk |-> FALSE, skip |-> FALSE, value |-> <<>>]

\* With(values, name, v): values[name] = v
With(values, name, v) ==
  [x \in DOMAIN values \cup {name} |-> IF x = name THEN v ELSE values[x]]

RECURSIVE _transfer_from_orm(_, _, _, _)

\* Lines 79-120: the value an orm method computes; the example's method
\* returns a scalar.
_compute_value_from_orm_method(field, django_obj) ==
  Value(Opt(GetAttr(django_obj, field.attname)))

\* Lines 220-246: the read scopes of the field against the access context.
\* env.access is <<>> when the context variable is not set (LookupError),
\* env.denied holds the selectors check_access raises AccessError for.
Redact(field, django_obj, value, env) ==
  LET scopes == [i \in 1..Len(field.scopes) |-> from_str(field.scopes[i])]
      read == SelectSeq(scopes, LAMBDA sc : sc.action = "read")
      read_scopes == [i \in 1..Len(read) |-> str(read[i])]
  IN IF scopes = <<>> \/ env.access = <<>> \/ read_scopes = <<>> THEN value
     ELSE IF has_audience(env.access[1], read_scopes) = <<>> THEN <<>>
     ELSE IF HasCheckAccess(django_obj)
               /\ \E i \in 1..Len(read) : read[i].selector \in env.denied
       THEN <<>>
     ELSE value

\* A singleton transfer that breaks on every required null value below a
\* parent field, nullable or not.
_transfer_field_singleton_any_parent(field, django_obj, pydantic_field_on_parent, env) ==
  IF field.kind = "nested" THEN
    Bind(_transfer_from_orm(field.type_, django_obj, <<field>>, env), LAMBDA r :
      IF r.err # "" THEN Raised(r.err) ELSE Value(r.val))
  ELSE
    LET value == Opt(GetAttr(django_obj, field.attname))
    IN IF field.required /\ pydantic_field_on_parent # <<>> /\ value = <<>>
         THEN Break
       ELSE Value(Redact(field, django_obj, value, env))

\* Lines 163-246.
_transfer_field_singleton(field, django_obj, pydantic_field_on_parent, env) ==
  IF field.kind = "nested" THEN
    Bind(_transfer_from_orm(field.type_, django_obj, <<field>>, env), LAMBDA r :
      IF r.err # "" THEN Raised(r.err) ELSE Value(r.val))
  ELSE
    LET value == Opt(GetAttr(django_obj, field.attname))
    IN IF /\ field.required
          /\ pydantic_field_on_parent # <<>>
          /\ pydantic_field_on_parent[1].allow_none
          /\ value = <<>>
         THEN Break
       ELSE Value(Redact(field, django_obj, value, env))

\* Lines 123-160: the related rows, each transferred to the element type.
RECURSIVE transfer_related(_, _, _, _)
transfer_related(field, rows, env, acc) ==
  IF rows = <<>> \/ acc.err # "" THEN acc
  ELSE Bind(_transfer_from_orm(field.type_, Head(rows), <<field>>, env), LAMBDA r :
         transfer_related(field, Tail(rows), env,
                          IF r.err # "" THEN Raised(r.err)
                          ELSE Value(<<Append(acc.value[1], r.val)>>)))

_transfer_field_list(field, django_obj, env) ==
  IF field.kind \in {"m2m", "reverse"}
    THEN transfer_related(field,
           Ordered(FilterRelated(env.d, field.rel.model, field.rel.source, django_obj)),
           env, Value(<< <<>> >>))
    ELSE Raised("NotImplementedError")

\* Lines 249-289.
_transfer_field(field, django_obj, pydantic_field_on_parent, env) ==
  IF field.kind = "method" THEN _compute_value_from_orm_method(field, django_obj)
  ELSE IF field.kind = "unbound" THEN Ellipsis
  ELSE IF field.kind = "missing" \/ (field.kind = "nested" /\ field.shape # "singleton")
    THEN Raised("AttributeError")
  ELSE IF field.shape = "singleton"
    THEN _transfer_field_singleton(field, django_obj, pydantic_field_on_parent, env)
  ELSE IF field.shape = "list" THEN _transfer_field_list(field, django_obj, env)
  ELSE Raised("NotImplementedError")

\* Lines 306-327: the loop over pydantic_cls.__fields__; acc is
\* [err, brk, values].
RECURSIVE from_orm_fields(_, _, _, _, _, _)
from_orm_fields(cls, fields, django_obj, pydantic_field_on_parent, env, acc) ==
  IF acc.err # "" THEN [err |-> acc.err, val |-> <<>>]
  ELSE IF acc.brk THEN [err |-> "", val |-> <<>>]
  ELSE IF fields = <<>> THEN [err |-> "", val |-> <<[cls |-> cls, values |-> acc.values]>>]
  ELSE Bind(_transfer_field(Head(fields), django_obj, pydantic_field_on_parent, env),
            LAMBDA r :
              from_orm_fields(cls, Tail(fields), django_obj, pydantic_field_on_parent, env,
                [err |-> r.err, brk |-> r.brk,
                 values |-> IF r.err # "" \/ r.brk \/ r.skip THEN acc.values
                            ELSE With(acc.values, Head(fields).name, r.value)]))

\* _transfer_from_orm(pydantic_cls, django_obj, pydantic_field_on_parent):
\* [err, val]; val is <<>> for None and <<instance>> otherwise.
_transfer_from_orm(pydantic_cls, django_obj, pydantic_field_on_parent, env) ==
  from_orm_fields(pydantic_cls, OutFields(pydantic_cls), django_obj,
                  pydantic_field_on_parent, env,
                  [err |-> "", brk |-> FALSE, values |-> [x \in {} |-> <<>>]])

\* Lines 34-76, the synchronous path.
transfer_from_orm(pydantic_cls, django_obj, env) ==
  _transfer_from_orm(pydantic_cls, django_obj, <<>>, env)

\* The stored orders read back: any of status, city and pin may be None.
StoredOrders ==
  {[model |-> "Order", id |-> 1, cols |-> [status |-> s, city |-> c, pin |-> p]] :
     s \in {None, 1}, c \in {None, 1}, p \in {None, 1}}

ReadTokens == [aud : SUBSET ReadScopes, crt : {FALSE}]

InitRead ==
  /\ \E o \in StoredOrders, n \in 0..MaxLen :
       db = {o} \cup {Line(i, 1, i) : i \in 1..n}
  /\ nextId = MaxId + 1
  /\ call = [op |-> "none"]
  /\ ncalls = 0

\* transfer_from_orm of the stored order into the read schema, under an
\* access context whose check_access denies the selectors in denied.
TransferFromOrm ==
  /\ ncalls = 0
  /\ ncalls' = 1
  /\ \E o \in {r \in db : r.model = "Order"}, t \in ReadTokens,
        denied \in SUBSET {<<"own">>, <<"any">>},
        cls \in {"OrderOut", "BrokenOut", "ShipmentOut"} :
       call' = [op |-> "transfer_from_orm", cls |-> cls, django_obj |-> o,
                token |-> t, denied |-> denied,
                result |-> transfer_from_orm(cls, o,
                             [d |-> db, access |-> <<t>>, denied |-> denied])]
  /\ UNCHANGED <<db, nextId>>

NextRead == TransferFromOrm

SpecRead == InitRead /\ [][NextRead]_vars

IsRead == call.op = "transfer_from_orm"

\* The read scopes a field is annotated with.
ReadScopesOf(field) ==
  SelectSeq(field.scopes, LAMBDA s : from_str(s).action = "read")

\* C13 (redaction on read): every field of the read schema annotated with a
\* read scope none of which the token holds is present in the returned
\* instance with value None, whatever its binding; the call does not raise.
C13_ReadRedaction ==
  (IsRead /\ call.cls = "OrderOut") =>
    /\ call.result.err = ""
    /\ call.result.val # <<>>
    /\ \A i \in 1..Len(OutFields("OrderOut")) :
         LET f == OutFields("OrderOut")[i]
         IN (ReadScopesOf(f) # <<>>
               /\ \A j \in 1..Len(ReadScopesOf(f)) : ReadScopesOf(f)[j] \notin call.token.aud)
              => /\ f.name \in DOMAIN call.result.val[1].values
                 /\ call.result.val[1].values[f.name] = <<>>

\* ------------------------------------------- the generated CRUD endpoints
\* Two router schema nodes of a tenant-scoped example: items, and parts
\* nested under an item.  Both models have a tenant_id column.  parent is
\* <<>> for a root node; id_field is the node's path parameter, which is
\* also the child's column pointing at the parent; delete_status is None or
\* the status a delete sets.
NodeItems ==
  [name |-> "items", model |-> "Item", parent |-> <<>>, id_field |-> "item_id",
   delete_status |-> None]
NodeParts ==
  [name |-> "parts", model |-> "Part", parent |-> <<NodeItems>>, id_field |-> "part_id",
   delete_status |-> 3]

Tenants == {1, 2}

Item(id, tenant) ==
  [model |-> "Item", id |-> id, cols |-> [tenant_id |-> tenant, status |-> 1]]
Part(id, tenant, item) ==
  [model |-> "Part", id |-> id,
   cols |-> [tenant_id |-> tenant, item_id |-> item, status |-> 1]]

\* A security filter that lets every row through: models.Q().
objects_filter_none(node, access, r) == TRUE

\* objects_filter(access), as a test on a row.
objects_filter(node, access, r) ==
  IF "tenant_id" \in DOMAIN Columns(node.model)
    THEN r.cols.tenant_id = access.token.ten
    ELSE TRUE

Front(seq) == SubSeq(seq, 1, Len(seq) - 1)
Last(seq) == seq[Len(seq)]

\* get_queryset(parent_ids, access): [err, rows].
RECURSIVE get_queryset(_, _, _, _)
get_queryset(node, parent_ids, access, d) ==
  IF node.parent # <<>> THEN
    Bind(get_queryset(node.parent[1], Front(parent_ids), access, d), LAMBDA pq :
      IF pq.err # "" THEN pq
      ELSE LET found == {r \in pq.rows : r.id = Last(parent_ids)}
           IN IF found = {} THEN [err |-> "ObjectDoesNotExist", rows |-> {}]
              ELSE [err |-> "",
                    rows |-> {r \in FilterRelated(d, node.model, node.parent[1].id_field,
                                                  CHOOSE q \in found : TRUE) :
                                objects_filter(node, access, r)}])
  ELSE [err |-> "", rows |-> {r \in d : r.model = node.model /\ objects_filter(node, access, r)}]

\* object_get_by_id(id, parent_ids, access): [err, rows] with the one row.
object_get_by_id(node, id, parent_ids, access, d) ==
  Bind(get_queryset(node, parent_ids, access, d), LAMBDA q :
    IF q.err # "" THEN q
    ELSE IF {r \in q.rows : r.id = id} = {} THEN [err |-> "ObjectDoesNotExist", rows |-> {}]
    ELSE [err |-> "", rows |-> {r \in q.rows : r.id = id}])

\* object_does_not_exist_handler answers 404.
NotFoundStatus == 404

\* What an endpoint leaves: the exception and the response status (None
\* unless the not-found handler set it), the database, the id generator, the
\* rows selected for the operation and the rows returned.
Response(err, d, next, selected, returned) ==
  [err |-> err,
   status_code |-> IF err = "ObjectDoesNotExist" THEN NotFoundStatus ELSE None,
   d |-> d, next |-> next, selected |-> selected, returned |-> returned]

TopEnv(d, next) ==
  [d |-> d, next |-> next, ev |-> <<>>, made |-> <<>>, kept |-> <<>>,
   depth |-> 0, just_return_objs |-> FALSE, fail_at |-> 0]

\* endpoint_list: the ids in the path are the parents'.
endpoint_list(node, ids, access, d, next) ==
  Bind(get_queryset(node, ids, access, d), LAMBDA q :
    Response(q.err, d, next, {}, q.rows))

\* endpoint_get
endpoint_get(node, ids, access, d, next) ==
  Bind(object_get_by_id(node, Last(ids), Front(ids), access, d), LAMBDA q :
    Response(q.err, d, next, q.rows, q.rows))

\* object_update inside @atomic, after _object_get.
object_update(node, ids, access, data, transfer_action, d, next) ==
  Bind(object_get_by_id(node, Last(ids), Front(ids), access, d), LAMBDA q :
    IF q.err # "" THEN Response(q.err, d, next, {}, {})
    ELSE Bind(transfer_to_orm(data, CHOOSE r \in q.rows : TRUE,
                              Args(transfer_action, transfer_action = NO_SUBOBJECTS,
                                   <<access.token>>, <<>>),
                              TopEnv(d, next)),
              LAMBDA st : Response(st.err, Atomic(d, st).d, st.next, q.rows, {st.obj})))

endpoint_patch(node, ids, access, data, d, next) ==
  object_update(node, ids, access, data, NO_SUBOBJECTS, d, next)

endpoint_put(node, ids, access, data, d, next) ==
  object_update(node, ids, access, data, SYNC, d, next)

\* endpoint_delete with object_delete.
endpoint_delete(node, ids, access, d, next) ==
  Bind(object_get_by_id(node, Last(ids), Front(ids), access, d), LAMBDA q :
    IF q.err # "" THEN Response(q.err, d, next, {}, {})
    ELSE LET instance == CHOOSE r \in q.rows : TRUE
         IN Response("",
                     IF node.delete_status # None
                       THEN Save(d, SetAttr(instance, "status", node.delete_status))
                       ELSE Delete(d, instance),
                     next, q.rows, {}))

\* endpoint_post with object_create: the ids in the path are the parents'.
endpoint_post(node, ids, access, data, d, next) ==
  LET new == NewInstance(node.model, next)
      own == IF "tenant_id" \in DOMAIN Columns(node.model)
               THEN SetAttr(new, "tenant_id", access.token.ten) ELSE new
      instance == IF node.parent # <<>>
                    THEN SetAttr(own, node.parent[1].id_field, Last(ids)) ELSE own
  IN Bind(transfer_to_orm(data, instance, Args(CREATE, FALSE, <<access.token>>, <<>>),
                          TopEnv(d, next + 1)),
          LAMBDA st : Response(st.err, Atomic(d, st).d, st.next, {}, {st.obj}))

Methods == {"list", "get", "post", "patch", "put", "delete"}

\* request_signalling(func): the signals sent around a handler that left
\* the exception err ("" when it returned).
request_signalling(err) ==
  <<"request_started">> \o (IF err = "" THEN <<"request_finished">> ELSE <<>>)

Endpoint(method, node, ids, access, data, d, next) ==
  CASE method = "list" -> endpoint_list(node, ids, access, d, next)
    [] method = "get" -> endpoint_get(node, ids, access, d, next)
    [] method = "post" -> endpoint_post(node, ids, access, data, d, next)
    [] method = "patch" -> endpoint_patch(node, ids, access, data, d, next)
    [] method = "put" -> endpoint_put(node, ids, access, data, d, next)
    [] method = "delete" -> endpoint_delete(node, ids, access, d, next)

\* The path ids of a request: the parents' ids, and the node's own id for
\* the methods that address one object.
PathIds(method, node) ==
  LET parents == IF node.parent # <<>> THEN [i \in 1..1 |-> Ids] ELSE <<>>
      n == Len(parents) + (IF method \in {"list", "post"} THEN 0 ELSE 1)
  IN [1..n -> Ids]

ItemBodies == {Instance("ItemIn", {"status"}, [status |-> 2]),
               Instance("ItemIn", {}, [status |-> None])}

\* The stored rows a request meets: items 1..MaxId, each absent or owned by
\* a tenant, and parts 1..MaxId under item 1, owned by the item's tenant or,
\* the last one, by the other.
InitRouter ==
  /\ \E own \in [Ids -> Tenants \cup {None}], parts \in SUBSET Ids, odd \in BOOLEAN :
       db = {Item(i, own[i]) : i \in {j \in Ids : own[j] # None}}
            \cup {Part(i, IF odd /\ i = MaxId THEN 2 ELSE 1, 1) :
                    i \in {j \in parts : own[1] = 1}}
  /\ nextId = MaxId + 1
  /\ call = [op |-> "none"]
  /\ ncalls = 0

\* One request to a generated endpoint, with the access object of a verified
\* token of tenant ten.
Request ==
  /\ ncalls = 0
  /\ \E method \in Methods, node \in {NodeItems, NodeParts}, ten \in Tenants,
        data \in ItemBodies :
       \E ids \in PathIds(method, node) :
         \E r \in {Endpoint(method, node, ids,
                            [token |-> [aud |-> {}, crt |-> FALSE, ten |-> ten]],
                            data, db, nextId)} :
           /\ db' = r.d
           /\ nextId' = r.next
           /\ call' = [op |-> "request", method |-> method, node |-> node, ids |-> ids,
                       ten |-> ten, before |-> db, err |-> r.err,
                       status_code |-> r.status_code, selected |-> r.selected,
                       returned |-> r.returned, signals |-> request_signalling(r.err)]
  /\ ncalls' = ncalls + 1

NextRouter == Request

SpecRouter == InitRouter /\ [][NextRouter]_vars

IsRequest == call.op = "request"

\* The addressed row of a request for one object, whatever its tenant.
Addressed ==
  {r \in call.before : r.model = call.node.model /\ r.id = Last(call.ids)}

\* C14 (tenant isolation): every row an endpoint returns or selects belongs
\* to the caller's tenant; a created row is stored with the caller's tenant;
\* a request for a row of another tenant ends in 404 with storage unchanged;
\* no request changes or removes a row of another tenant.
C14_TenantIsolation ==
  IsRequest =>
    /\ \A r \in call.selected \cup call.returned : r.cols.tenant_id = call.ten
    /\ call.selected \subseteq call.before
    /\ (call.method \in {"list", "get"} /\ call.err = "")
         => call.returned \subseteq call.before
    /\ (call.method = "post" /\ call.err = "")
         => \E r \in db \ call.before :
              /\ r.model = call.node.model
              /\ r.cols.tenant_id = call.ten
              /\ db \ call.before = {r}
    /\ (call.method \in {"get", "patch", "put", "delete"}
          /\ \E r \in Addressed : r.cols.tenant_id # call.ten)
         => /\ call.err = "ObjectDoesNotExist"
            /\ call.status_code = 404
            /\ db = call.before
    /\ \A r \in call.before : r.cols.tenant_id # call.ten => r \in db

\* C14's case: a mutating request addressed a stored row of another tenant.
C14_Witness ==
  /\ IsRequest
  /\ call.method \in {"patch", "put", "delete"}
  /\ \E r \in Addressed : r.cols.tenant_id # call.ten
  /\ call.status_code = 404

\* ------------------------------------------------------ JWTToken.get_access
\* AccessToken.has_audiences: the candidates found in the token's audience
\* list, in the candidates' order.
has_audiences(token, audiences) ==
  SelectSeq(audiences, LAMBDA audience : audience \in token.aud)

\* AuthError's default status, and the status _set_scopes raises with.
AuthErrorStatus == 401
AudienceMissingStatus == 403

\* What get_access leaves: the exception ("" for none) with its status, the
\* access object returned (<<>> for none) and the one stored in the request
\* context.
Access(token, scope, scopes) == [token |-> token, scope |-> scope, scopes |-> scopes]

\* _set_scopes(access, scopes): [err, status_code, access].
_set_scopes(access, scopes) ==
  IF scopes = <<>> THEN [err |-> "", status_code |-> None, access |-> access]
  ELSE LET audiences == has_audiences(access.token, scopes)
           aud_scopes == [i \in 1..Len(audiences) |-> from_str(audiences[i])]
       IN IF audiences = <<>>
            THEN [err |-> "required_audience_missing",
                  status_code |-> AudienceMissingStatus, access |-> access]
            ELSE [err |-> "", status_code |-> None,
                  access |-> Access(access.token, <<aud_scopes[1]>>, <<aud_scopes>>)]

\* get_access(token, scopes); token is <<>> for an empty token (_create_access
\* raises AuthError) and <<decoded>> for one that decode_token verified.
get_access(token, scopes) ==
  IF token = <<>>
    THEN [err |-> "AuthError", status_code |-> AuthErrorStatus,
          access |-> <<>>, context |-> <<>>]
  ELSE Bind(_set_scopes(Access(token[1], <<>>, <<>>), scopes), LAMBDA r :
         IF r.err # ""
           THEN [err |-> r.err, status_code |-> r.status_code,
                 access |-> <<>>, context |-> <<>>]
           ELSE [err |-> "", status_code |-> None,
                 access |-> <<r.access>>, context |-> <<r.access>>])

\* The status of the "Not authenticated" error APIKeyHeader raises, which
\* __call__ tests for.
NotAuthenticatedStatus == 403

\* JWTToken.__call__(request, scopes); header is <<>> when the request
\* carries no Authorization value.  APIKeyHeader.__call__ then raises
\* starlette's HTTPException(403) when auto_error is set and returns None
\* when it is not.  The except clause names fastapi's HTTPException, a
\* subclass of the one raised, so the error is not turned into AuthError
\* and leaves with its status; a None token returns None before get_access.
__call__(header, scopes, auto_error) ==
  IF header = <<>>
    THEN IF auto_error
           THEN [err |-> "HTTPException", status_code |-> NotAuthenticatedStatus,
                 access |-> <<>>, context |-> <<>>]
           ELSE [err |-> "", status_code |-> None, access |-> <<>>, context |-> <<>>]
  ELSE get_access(header, scopes)

InitAuth ==
  /\ db = {}
  /\ nextId = MaxId + 1
  /\ call = [op |-> "none"]
  /\ ncalls = 0

\* The security dependency of an endpoint, called with the request's
\* header and the endpoint's required scopes.
GetAccess ==
  /\ \E token \in {<<>>} \cup {<<t>> : t \in ReadTokens},
        scopes \in SeqsOf(ReadScopes, 0, MaxLen), auto_error \in BOOLEAN :
       call' = [op |-> "get_access", token |-> token, scopes |-> scopes,
                auto_error |-> auto_error,
                result |-> __call__(token, scopes, auto_error)]
  /\ UNCHANGED <<db, nextId, ncalls>>

NextAuth == GetAccess

SpecAuth == InitAuth /\ [][NextAuth]_vars

IsAuth == call.op = "get_access"

\* The required scopes the token's audience list holds, in requirement order.
Matching ==
  SelectSeq(call.scopes, LAMBDA sc : sc \in call.token[1].aud)

\* C15 (required scopes): with a verified token and required scopes, no
\* required scope in the audience list means a 401 and no access object in
\* the context; otherwise access.scopes are the matching required scopes in
\* requirement order and access.scope is the first of them.
C15_MissingScopeIs401 ==
  (IsAuth /\ call.token # <<>> /\ call.scopes # <<>>) =>
    /\ Matching = <<>>
         => /\ call.result.err # ""
            /\ call.result.status_code = 401
            /\ call.result.context = <<>>
    /\ Matching # <<>>
         => /\ call.result.err = ""
            /\ call.result.context = call.result.access
            /\ call.result.access[1].scopes
                 = <<[i \in 1..Len(Matching) |-> from_str(Matching[i])]>>
            /\ call.result.access[1].scope = <<from_str(Matching[1])>>

\* ------------------------------------------ security of the router schema
\* Method.value of the seven endpoint methods.
MethodValues == {"list", "aggregate", "get", "post", "patch", "put", "delete"}
Mutating == {"post", "put", "patch", "delete"}

MaxDepth == 3

\* The resource a node at depth i serves; its scope strings name it.
ResourceOf == <<"orders", "lines", "parts", "bolts", "nuts">>
NodeScope(i, action) == <<"shop", ResourceOf[i], action, "any">>

\* SecurityScopes(**values) as the router schema declares it: scope strings
\* for some of the methods.
RawScopes(get, list, post, patch) ==
  [get |-> get, list |-> list, aggregate |-> <<>>, post |-> post, patch |-> patch,
   put |-> <<>>, delete |-> <<>>]

\* The declarations a node may carry: none at all, an empty one, scopes for
\* get only (list and aggregate default to them), for get and list, for
\* patch only, for post only.
DeclKinds == {"none", "empty", "get", "get+list", "patch", "post"}

Declared(kind, i) ==
  CASE kind = "empty" -> RawScopes(<<>>, <<>>, <<>>, <<>>)
    [] kind = "get" -> RawScopes(<<NodeScope(i, "read")>>, <<>>, <<>>, <<>>)
    [] kind = "get+list" ->
         RawScopes(<<NodeScope(i, "read")>>, <<NodeScope(i, "list")>>, <<>>, <<>>)
    [] kind = "patch" -> RawScopes(<<>>, <<>>, <<>>, <<NodeScope(i, "update")>>)
    [] kind = "post" -> RawScopes(<<>>, <<>>, <<NodeScope(i, "create")>>, <<>>)

\* SecurityScopes.transform_scopes: every scope string becomes an
\* AccessScope; list and aggregate default to get's scopes.
transform_scopes(values) ==
  LET parsed == [key \in MethodValues |->
                   [j \in 1..Len(values[key]) |-> from_str(values[key][j])]]
  IN [key \in MethodValues |->
        IF key \in {"list", "aggregate"} /\ parsed.get # <<>> /\ parsed[key] = <<>>
          THEN parsed.get ELSE parsed[key]]

\* A router schema node: security_scopes (<<>> for None) and security (<<>>
\* for None); node i's parent is node i - 1 of the chain, node 1 has none.
RouterNode(kind, secured, i) ==
  [security_scopes |-> IF kind = "none" THEN <<>> ELSE <<transform_scopes(Declared(kind, i))>>,
   security |-> IF secured THEN <<[scheme_name |-> ResourceOf[i]]>> ELSE <<>>]

\* A resolution that keeps the method all the way up.
RECURSIVE _get_security_scopes_same_method(_, _, _)
_get_security_scopes_same_method(nodes, i, method) ==
  IF nodes[i].security_scopes # <<>> /\ nodes[i].security_scopes[1][method] # <<>>
    THEN nodes[i].security_scopes[1][method]
  ELSE IF i > 1 THEN _get_security_scopes_same_method(nodes, i - 1, method)
  ELSE <<>>

\* _get_security_scopes(method) of node i; <<>> for None.
RECURSIVE _get_security_scopes(_, _, _)
_get_security_scopes(nodes, i, method) ==
  IF nodes[i].security_scopes # <<>> /\ nodes[i].security_scopes[1][method] # <<>>
    THEN nodes[i].security_scopes[1][method]
  ELSE IF i > 1
    THEN _get_security_scopes(nodes, i - 1, IF method \in Mutating THEN "patch" ELSE method)
  ELSE <<>>

\* _get_security(method) of node i: [security, scopes], both <<>> for None.
RECURSIVE _get_security(_, _, _)
_get_security(nodes, i, method) ==
  LET scopes == _get_security_scopes(nodes, i, method)
  IN IF scopes = <<>> THEN [security |-> <<>>, scopes |-> <<>>]
     ELSE IF nodes[i].security # <<>> THEN [security |-> nodes[i].security, scopes |-> scopes]
     ELSE IF i > 1
       THEN [security |-> _get_security(nodes, i - 1, method).security, scopes |-> scopes]
     ELSE [security |-> <<>>, scopes |-> <<>>]

\* _security_signature(method): the access parameter the endpoint gets, as
\* <<[security, scopes]>> with the scope strings, or <<>> when it yields none.
_security_signature(nodes, i, method) ==
  LET got == _get_security(nodes, i, method)
  IN IF got.security = <<>> THEN <<>>
     ELSE <<[security |-> got.security[1],
             scopes |-> [j \in 1..Len(got.scopes) |-> str(got.scopes[j])]]>>

InitSecurity ==
  /\ db = {}
  /\ nextId = MaxId + 1
  /\ call = [op |-> "none"]
  /\ ncalls = 0

\* The security of one endpoint of the last node of a chain of up to MaxDepth
\* nodes is resolved.
ResolveSecurity ==
  /\ ncalls = 0
  /\ ncalls' = 1
  /\ \E n \in 1..MaxDepth, method \in MethodValues :
       \E c \in [1..n -> DeclKinds \X BOOLEAN] :
         \E nodes \in {[i \in 1..n |-> RouterNode(c[i][1], c[i][2], i)]} :
           call' = [op |-> "security", nodes |-> nodes, i |-> n, method |-> method,
                    scopes |-> _get_security_scopes(nodes, n, method),
                    signature |-> _security_signature(nodes, n, method)]
  /\ UNCHANGED <<db, nextId>>

NextSecurity == ResolveSecurity

SpecSecurity == InitSecurity /\ [][NextSecurity]_vars

IsSecurity == call.op = "security"

\* The scopes node j declares for method m (after construction).
DeclaredFor(j, m) ==
  IF call.nodes[j].security_scopes = <<>> THEN <<>>
  ELSE call.nodes[j].security_scopes[1][m]

\* The method looked up on the ancestors.
Inherited(m) == IF m \in Mutating THEN "patch" ELSE m

\* The ancestors of the node that declare scopes for the inherited method.
Declaring == {j \in 1..(call.i - 1) : DeclaredFor(j, Inherited(call.method)) # <<>>}

\* C16 (effective scopes): the node's own scopes for the method when it
\* declares any; else those the nearest ancestor declares for the inherited
\* method (patch for post/put/patch/delete, the same method otherwise); else
\* none.
C16_EffectiveScopes ==
  IsSecurity =>
    call.scopes =
      IF DeclaredFor(call.i, call.method) # <<>> THEN DeclaredFor(call.i, call.method)
      ELSE IF Declaring # {}
        THEN DeclaredFor(CHOOSE j \in Declaring : \A k \in Declaring : k <= j,
                         Inherited(call.method))
      ELSE <<>>

\* C16's case: a post endpoint two levels below the node whose patch scopes
\* it inherits, while a nearer ancestor declares scopes for other methods.
C16_Witness ==
  /\ IsSecurity
  /\ call.method = "post"
  /\ call.i = 3
  /\ DeclaredFor(3, "post") = <<>>
  /\ DeclaredFor(2, "post") # <<>>
  /\ DeclaredFor(1, "patch") # <<>>
  /\ call.scopes = DeclaredFor(1, "patch")

\* The node itself or its ancestors that declare a security mechanism.
Securing == {j \in 1..call.i : call.nodes[j].security # <<>>}

\* C17 (endpoint protection): whenever the effective scopes are non-empty
\* and the node or an ancestor declares a security mechanism, the endpoint
\* takes the access parameter with the nearest declared mechanism and
\* exactly the effective scopes.
C17_ProtectedWhenScoped ==
  (IsSecurity /\ call.scopes # <<>> /\ Securing # {}) =>
    /\ call.signature # <<>>
    /\ call.signature[1].security
         = call.nodes[CHOOSE j \in Securing : \A k \in Securing : k <= j].security[1]
    /\ call.signature[1].scopes = [j \in 1..Len(call.scopes) |-> str(call.scopes[j])]

\* ---------------------------------------------------------------------
\* Router compilation: DjangoRouterSchema.__init__, the router property,
\* _create_router (routing/django.py) and the registry (routing/registry.py).
\*
\* In this part db is the object heap, nextId the id of the next APIRouter
\* object, call the threads (each a stack of frames, the last one running)
\* and ncalls the number of router accesses and requests started.
\* ---------------------------------------------------------------------

MaxAccess == 3

\* Node 1 ("orders") has the child node 2 ("lines").
SchemaNodes == {1, 2}
NodeName == <<"orders", "lines">>
Children(node) == IF node = 1 THEN <<2>> ELSE <<>>

\* Thread 1 also constructs the schemas (module import); thread 2 only
\* accesses them.
Threads == {1, 2}

\* name_singular of a node: the lower-cased name of its model.
name_singular == <<"order", "line">>

\* id_field and id_field_placeholder of a node; a node with a parent drops
\* the parent's name_singular from the front of its own (no model name of
\* the example starts with its parent's).
id_field(node) == name_singular[node] \o "_id"
id_field_placeholder(node) == "{" \o id_field(node) \o "}"

\* The endpoints a node creates of its own: it has a list and a get schema,
\* no create or update schema, no aggregate fields and delete = False.
OwnRoutes == <<"list", "get">>

\* The path add_api_route gives a route of the node on a router with the
\* given prefix: the list route sits at the prefix, the get route below it
\* at the id placeholder.
RoutePath(prefix, node, kind) ==
  IF kind = "get" THEN prefix \o <<id_field_placeholder(node)>> ELSE prefix

Frame(fn, node, pc) ==
  [fn |-> fn, node |-> node, pc |-> pc, k |-> 1, target |-> None, j |-> 1]

Top(th) == th.stack[Len(th.stack)]
SetTop(th, f) == [th EXCEPT !.stack = [@ EXCEPT ![Len(@)] = f]]

\* The running frame returns ret to the frame below it.
Pop(th, ret) == [th EXCEPT !.stack = SubSeq(@, 1, Len(@) - 1), !.ret = ret]

\* An exception no frame handles: the stack unwinds.
Unwind(th, err) == [th EXCEPT !.stack = <<>>, !.err = err]

\* The condition of the router property, `not self.__router`, for a thread
\* that never looks.
not_router_always(d, node) == TRUE

\* `not self.__router`
not_router(d, node) == d.router[node] = None

\* registry.register_router: [err, routers].
register_router(routers, router) ==
  IF router \in routers THEN [err |-> "ValueError", routers |-> routers]
  ELSE [err |-> "", routers |-> routers \cup {router}]

\* APIRouter.include_router(router) without a prefix of its own, one turn
\* of its loop over router.routes: route j of the included router is added
\* under self.prefix.
include_router(objs, target, router, j) ==
  [objs EXCEPT ![target].routes =
     Append(@, [objs[router].routes[j] EXCEPT !.path = objs[target].prefix \o @])]

InitCompile ==
  /\ \E register \in [SchemaNodes -> BOOLEAN], get \in {"OrderOut", "BrokenOut"} :
       db = [register |-> register, get |-> get,
             parent |-> [n \in SchemaNodes |-> None],
             constructed |-> [n \in SchemaNodes |-> FALSE],
             router |-> [n \in SchemaNodes |-> None],
             objs |-> <<>>,
             builds |-> [n \in SchemaNodes |-> 0],
             routers |-> {}]
  /\ nextId = 1
  /\ call = [t \in Threads |->
               [stack |-> IF t = 1 THEN <<Frame("init", 1, "init"), Frame("init", 2, "init")>>
                          ELSE <<>>,
                ret |-> None, err |-> "", done |-> <<>>, served |-> <<>>]]
  /\ ncalls = 0

Running(t, pc) == call[t].stack # <<>> /\ Top(call[t]).pc = pc

\* RouterSchema.__init__ and DjangoRouterSchema.__init__: the children get
\* their parent; with register_router the router is created right away.
Construct(t) ==
  /\ Running(t, "init")
  /\ LET f == Top(call[t])
         kids == {Children(f.node)[j] : j \in 1..Len(Children(f.node))}
         d == [db EXCEPT !.parent = [n \in SchemaNodes |-> IF n \in kids THEN f.node ELSE @[n]]]
     IN IF db.register[f.node]
          THEN /\ db' = d
               /\ call' = [call EXCEPT ![t] = SetTop(@, [f EXCEPT !.pc = "create"])]
          ELSE /\ db' = [d EXCEPT !.constructed[f.node] = TRUE]
               /\ call' = [call EXCEPT ![t] = Pop(@, None)]
  /\ UNCHANGED <<nextId, ncalls>>

\* The router property, line 194: `if not self.__router`.
RouterCheck(t) ==
  /\ Running(t, "check")
  /\ LET f == Top(call[t])
     IN call' = [call EXCEPT ![t] =
                   SetTop(@, [f EXCEPT !.pc = IF not_router(db, f.node) THEN "create"
                                               ELSE "return"])]
  /\ UNCHANGED <<db, nextId, ncalls>>

\* _create_router, lines 200-204: self.__router = APIRouter(prefix=prefix).
CreateRouter(t) ==
  /\ Running(t, "create")
  /\ LET f == Top(call[t])
         prefix == IF db.parent[f.node] # None
                     THEN <<id_field_placeholder(db.parent[f.node]), NodeName[f.node]>>
                     ELSE <<NodeName[f.node]>>
     IN /\ db' = [db EXCEPT !.router[f.node] = nextId,
                            !.objs = Append(@, [prefix |-> prefix, routes |-> <<>>]),
                            !.builds[f.node] = @ + 1]
        /\ call' = [call EXCEPT ![t] = SetTop(@, [f EXCEPT !.pc = "route"])]
  /\ nextId' = nextId + 1
  /\ UNCHANGED ncalls

\* _create_router, lines 206-223: one _create_route_* call; it adds the
\* route to the router self.__router holds at that moment.
CreateRoute(t) ==
  /\ Running(t, "route")
  /\ LET f == Top(call[t])
         router == db.router[f.node]
     IN /\ db' = [db EXCEPT !.objs[router].routes =
                    Append(@, [path |-> RoutePath(db.objs[router].prefix, f.node, OwnRoutes[f.k]),
                               endpoint |-> <<f.node, OwnRoutes[f.k]>>])]
        /\ call' = [call EXCEPT ![t] =
                      SetTop(@, IF f.k < Len(OwnRoutes) THEN [f EXCEPT !.k = @ + 1]
                                ELSE [f EXCEPT !.pc = "children", !.k = 1])]
  /\ UNCHANGED <<nextId, ncalls>>

\* _create_router, lines 226-227: `self.__router.include_router(child.router)`
\* reads self.__router, then calls the child's router property.
IncludeChild(t) ==
  /\ Running(t, "children")
  /\ LET f == Top(call[t])
     IN IF f.k <= Len(Children(f.node))
          THEN call' = [call EXCEPT ![t] =
                          [SetTop(@, [f EXCEPT !.pc = "include", !.target = db.router[f.node]])
                             EXCEPT !.stack = Append(@, Frame("router", Children(f.node)[f.k], "check"))]]
          ELSE call' = [call EXCEPT ![t] = SetTop(@, [f EXCEPT !.pc = "register"])]
  /\ UNCHANGED <<db, nextId, ncalls>>

\* The include_router call itself, with the router the child returned: it
\* walks the routes that router holds at each turn and adds them one at a
\* time, then the loop over the children goes on.
IncludeRouter(t) ==
  /\ Running(t, "include")
  /\ LET f == Top(call[t])
         router == call[t].ret
     IN IF f.j <= Len(db.objs[router].routes)
          THEN /\ db' = [db EXCEPT !.objs = include_router(@, f.target, router, f.j)]
               /\ call' = [call EXCEPT ![t] = SetTop(@, [f EXCEPT !.j = @ + 1])]
          ELSE /\ db' = db
               /\ call' = [call EXCEPT ![t] =
                             SetTop(@, [f EXCEPT !.pc = "children", !.k = @ + 1,
                                                 !.target = None, !.j = 1])]
  /\ UNCHANGED <<nextId, ncalls>>

\* _create_router, lines 229-230, and its return to __init__ or to the
\* router property.
Register(t) ==
  /\ Running(t, "register")
  /\ LET f == Top(call[t])
         reg == IF db.register[f.node] THEN register_router(db.routers, db.router[f.node])
                ELSE [err |-> "", routers |-> db.routers]
     IN IF reg.err # ""
          THEN /\ db' = db
               /\ call' = [call EXCEPT ![t] = Unwind(@, reg.err)]
        ELSE IF f.fn = "init"
          THEN /\ db' = [db EXCEPT !.routers = reg.routers, !.constructed[f.node] = TRUE]
               /\ call' = [call EXCEPT ![t] = Pop(@, None)]
        ELSE /\ db' = [db EXCEPT !.routers = reg.routers]
             /\ call' = [call EXCEPT ![t] = SetTop(@, [f EXCEPT !.pc = "return"])]
  /\ UNCHANGED <<nextId, ncalls>>

\* The router property, line 197: `return self.__router`.
RouterReturn(t) ==
  /\ Running(t, "return")
  /\ LET f == Top(call[t])
         th == Pop(call[t], db.router[f.node])
     IN call' = [call EXCEPT ![t] =
                   IF th.stack = <<>>
                     THEN [th EXCEPT !.done = Append(@, [node |-> f.node, router |-> th.ret])]
                     ELSE th]
  /\ UNCHANGED <<db, nextId, ncalls>>

\* Every schema is constructed and the constructing thread has not failed.
Constructed == (\A n \in SchemaNodes : db.constructed[n]) /\ call[1].err = ""

Idle(t) == call[t].stack = <<>> /\ call[t].err = ""

\* A thread reads node.router.
RouterAccess(t) ==
  /\ Constructed
  /\ Idle(t)
  /\ ncalls < MaxAccess
  /\ \E node \in SchemaNodes :
       call' = [call EXCEPT ![t].stack = <<Frame("router", node, "check")>>]
  /\ ncalls' = ncalls + 1
  /\ UNCHANGED <<db, nextId>>

\* The order the get endpoint of node 1 reads.
ServedOrder == [model |-> "Order", id |-> 1, cols |-> [status |-> 1, city |-> 1, pin |-> 1]]

\* The router node 1 holds has the route of the node's get endpoint.
HasGetRoute ==
  /\ db.router[1] # None
  /\ \E j \in 1..Len(db.objs[db.router[1]].routes) :
       db.objs[db.router[1]].routes[j]
         = [path |-> RoutePath(db.objs[db.router[1]].prefix, 1, "get"),
            endpoint |-> <<1, "get">>]

\* A request to the get endpoint of node 1, which its router matches once
\* it holds the route: the stored order is transferred into the node's get
\* schema.
Serve(t) ==
  /\ Constructed
  /\ Idle(t)
  /\ ncalls < MaxAccess
  /\ HasGetRoute
  /\ LET got == transfer_from_orm(db.get, ServedOrder,
                                  [d |-> {ServedOrder},
                                   access |-> <<[aud |-> ReadScopes, crt |-> FALSE]>>,
                                   denied |-> {}])
     IN call' = [call EXCEPT ![t].served = Append(@, got.err)]
  /\ ncalls' = ncalls + 1
  /\ UNCHANGED <<db, nextId>>

ThreadStep(t) ==
  \/ Construct(t)
  \/ RouterCheck(t)
  \/ CreateRouter(t)
  \/ CreateRoute(t)
  \/ IncludeChild(t)
  \/ IncludeRouter(t)
  \/ Register(t)
  \/ RouterReturn(t)
  \/ RouterAccess(t)
  \/ Serve(t)

\* One thread: every access runs to its end before the next one starts.
NextCompile == ThreadStep(1)

SpecCompile == InitCompile /\ [][NextCompile]_vars

\* Any thread takes the next step.
NextThreads == \E t \in Threads : ThreadStep(t)

SpecThreads == InitCompile /\ [][NextThreads]_vars

\* The accesses of thread t that have returned, as [node, router].
Returned(t) == {call[t].done[j] : j \in 1..Len(call[t].done)}

\* How often a route occurs among the routes of router object id.
Occurrences(id, route) ==
  Cardinality({j \in 1..Len(db.objs[id].routes) : db.objs[id].routes[j] = route})

\* Every route of each child's router occurs exactly once, under the
\* prefix of router object id, among the routes of that object.
ChildrenAttachedOnce(id, node) ==
  \A k \in 1..Len(Children(node)) :
    LET child == db.router[Children(node)[k]]
    IN /\ child # None
       /\ \A j \in 1..Len(db.objs[child].routes) :
            Occurrences(id, [db.objs[child].routes[j]
                               EXCEPT !.path = db.objs[id].prefix \o @]) = 1

\* The node's own endpoints occur exactly once each in router object id.
OwnRoutesOnce(id, node) ==
  \A k \in 1..Len(OwnRoutes) :
    Occurrences(id, [path |-> RoutePath(db.objs[id].prefix, node, OwnRoutes[k]),
                     endpoint |-> <<node, OwnRoutes[k]>>]) = 1

\* Router object id holds what one complete construction for node leaves.
RECURSIVE FullyBuilt(_, _)
FullyBuilt(id, node) ==
  /\ id # None
  /\ OwnRoutesOnce(id, node)
  /\ ChildrenAttachedOnce(id, node)
  /\ Len(db.objs[id].routes)
       = Len(OwnRoutes) + Len(Children(node)) * Len(OwnRoutes)
  /\ \A k \in 1..Len(Children(node)) :
       FullyBuilt(db.router[Children(node)[k]], Children(node)[k])

C18_State ==
  \A n \in SchemaNodes :
    /\ (Constructed /\ db.register[n]) => db.router[n] # None
    /\ \A e \in Returned(1) : e.node = n => (e.router # None /\ e.router = db.router[n])
    /\ db.builds[n] <= 1
    /\ (Idle(1) /\ db.router[n] # None) => ChildrenAttachedOnce(db.router[n], n)

C18_Step ==
  \A n \in SchemaNodes :
    db.router[n] # None =>
      /\ db'.router[n] = db.router[n]
      /\ db'.builds[n] = db.builds[n]

\* C18 (memoized compilation): with one thread, a node is compiled after
\* its construction when register_router is set and after the first access
\* to its router otherwise; every access returns the one router object the
\* node holds; route construction runs at most once per node; a compiled
\* node keeps its router for ever; and the routes of each child's router
\* are attached under the node's prefix exactly once.
C18_MemoizedCompilation == []C18_State /\ [][C18_Step]_vars

\* C18's case: the router of the lazily compiled parent node has been read
\* twice, and the second read found the router of the first.
C18_Witness ==
  /\ ~db.register[1]
  /\ Idle(1)
  /\ \E i, j \in 1..Len(call[1].done) :
       /\ i < j
       /\ call[1].done[i].node = 1
       /\ call[1].done[j] = call[1].done[i]
  /\ db.builds[1] = 1
  /\ ChildrenAttachedOnce(db.router[1], 1)

\* C19 (concurrent first access): with two threads, route construction
\* runs at most once per node, and every access returns the node's one
\* router, fully built.
C19_AtMostOnceUnderThreads ==
  \A n \in SchemaNodes :
    /\ db.builds[n] <= 1
    /\ \A t \in Threads : \A e \in Returned(t) :
         e.node = n => (e.router = db.router[n] /\ FullyBuilt(e.router, n))

\* The get schema of node 1 has a field without any binding.
MissingBinding ==
  \E k \in 1..Len(OutFields(db.get)) : OutFields(db.get)[k].kind = "missing"

\* C20 (missing binding fails early): a get schema with a field that has no
\* binding never gets through the construction of its router schema, and no
\* request is the first to raise the error of the missing binding.
C20_MissingBindingFailsEarly ==
  /\ MissingBinding => ~Constructed
  /\ \A t \in Threads : \A j \in 1..Len(call[t].served) :
       call[t].served[j] # "AttributeError"

\* ---------------------------------------------------------------------
\* AccessScope.from_str and __str__ on arbitrary scope strings
\* (schemas/access.py 62-79). A scope string is the tuple of the segments
\* between its dots; "" is an empty segment.
\* ---------------------------------------------------------------------

MaxSegments == 4

Segments == {"", "shop", "orders"}

ScopeStrings == UNION {[1..n -> Segments] : n \in 1..MaxSegments}

\* `scope.split('.') + [None]`, then scopes[0] .. scopes[3]: the index
\* that is out of range for a string of fewer than three segments.
from_str_raises(scope) == IF Len(scope) + 1 < 4 THEN "IndexError" ELSE ""

InitScope ==
  /\ db = {}
  /\ nextId = MaxId + 1
  /\ call = [op |-> "none"]
  /\ ncalls = 0

\* str(AccessScope.from_str(scope)) for one scope string.
FromStr ==
  /\ ncalls = 0
  /\ ncalls' = 1
  /\ \E scope \in ScopeStrings :
       call' = IF from_str_raises(scope) # ""
                 THEN [op |-> "from_str", scope |-> scope,
                       err |-> from_str_raises(scope), text |-> <<>>]
                 ELSE [op |-> "from_str", scope |-> scope, err |-> "",
                       parsed |-> from_str(scope), text |-> str(from_str(scope))]
  /\ UNCHANGED <<db, nextId>>

NextScope == FromStr

SpecScope == InitScope /\ [][NextScope]_vars

\* C21 (scope round trip): a scope string of 2, 3 or 4 non-empty segments
\* is parsed without error, and the string form of the parsed scope is the
\* scope string.
C21_ScopeRoundTrip ==
  (/\ call.op = "from_str"
   /\ Len(call.scope) \in 2..4
   /\ \A j \in 1..Len(call.scope) : call.scope[j] # "")
    => (call.err = "" /\ call.text = call.scope)

\* ---------------------------------------------------------------------
\* The list endpoint with its search filter and pagination
\* (routing/django.py 367-375, 514-545, 678-712, 779-803; utils/fastapi.py
\* 11-26; schemas/query.py 10-25).
\* ---------------------------------------------------------------------

MaxLimit == 2    \* pagination_options['max_limit'] of the example node
MaxOffset == 2

\* A query parameter is <<>> when the request does not carry it and <<v>>
\* when it does.
LimitParams == {<<>>} \cup {<<l>> : l \in 0..(MaxLimit + 1)}
OffsetParams == {<<>>} \cup {<<o>> : o \in (0 - 1)..MaxOffset}

\* An order_by entry names a field, descending with a leading '-'.
OrderKey(field, desc) == [field |-> field, desc |-> desc]
OrderBys ==
  {<<>>, <<OrderKey("id", FALSE)>>, <<OrderKey("id", TRUE)>>,
   <<OrderKey("status", TRUE)>>, <<OrderKey("status", FALSE), OrderKey("id", TRUE)>>,
   <<OrderKey("item", FALSE), OrderKey("id", TRUE)>>,
   <<OrderKey("item_id", FALSE)>>, <<OrderKey("pk", TRUE)>>,
   <<OrderKey("colour", FALSE)>>}

\* model._meta.get_fields(include_parents=False) of the example models: a
\* field's name, the attribute that holds its column ("" for a reverse
\* relation), whether it is a plain column, a ForeignKey or a ManyToOneRel,
\* and the related model.
ModelField(name, attname, kind, related_model) ==
  [name |-> name, attname |-> attname, kind |-> kind, related_model |-> related_model]
get_fields(model) ==
  CASE model = "Item" ->
         {ModelField("id", "id", "column", ""),
          ModelField("tenant_id", "tenant_id", "column", ""),
          ModelField("status", "status", "column", ""),
          ModelField("part", "", "rel", "Part")}
    [] model = "Part" ->
         {ModelField("id", "id", "column", ""),
          ModelField("tenant_id", "tenant_id", "column", ""),
          ModelField("item", "item_id", "fk", "Item"),
          ModelField("status", "status", "column", "")}

\* model_fields: every field of the node's model under its name, and the
\* fields of each related model under '<name>__', except across a relation
\* to the parent node's model, to the model itself or to a model already
\* on the way.
RECURSIVE _get_model_fields(_, _, _, _)
_get_model_fields(node, model, prefix, recursion_tree) ==
  UNION {
    {[name |-> prefix \o field.name, value |-> field]}
      \cup (IF /\ field.kind \in {"fk", "rel"}
               /\ ~(node.parent # <<>> /\ field.related_model = node.parent[1].model)
               /\ field.related_model # model
               /\ field.related_model \notin recursion_tree
              THEN _get_model_fields(node, field.related_model,
                                     prefix \o field.name \o "__",
                                     recursion_tree \cup {model})
              ELSE {})
    : field \in get_fields(model)}
model_fields(node) == _get_model_fields(node, node.model, "", {})

\* order_fields: the names order_by may carry (each also with a leading
\* '-', which OrderKey holds as desc); a reverse relation is ordered by its
\* count.
order_fields(node) ==
  {IF field.value.kind = "rel" THEN field.name \o "__count" ELSE field.name
     : field \in model_fields(node)}

\* Optional[List[order_fields]]: the framework rejects an order_by entry
\* that is not one of the node's order fields before get_pagination runs.
order_by_invalid(node, order_by) ==
  \E k \in 1..Len(order_by) : order_by[k].field \notin order_fields(node)

\* Query(None, le=max_limit, ge=1) and Query(None, ge=0): what the
\* framework rejects before get_pagination runs.
pagination_invalid(limit, offset, max_limit) ==
  \/ limit # <<>> /\ (limit[1] < 1 \/ limit[1] > max_limit)
  \/ offset # <<>> /\ offset[1] < 0

\* A get_pagination that passes the limit on as the end of the window.
get_pagination_plain_limit(limit, offset, order_by, max_limit) ==
  [limit |-> IF limit = <<>> \/ limit[1] = 0 THEN max_limit ELSE limit[1],
   offset |-> IF offset = <<>> THEN 0 ELSE offset[1],
   order_by |-> order_by]

\* depends_pagination(max_limit).get_pagination: `limit or max_limit`
\* takes max_limit for a limit of None and for a limit of 0.
get_pagination(limit, offset, order_by, max_limit) ==
  LET off == IF offset = <<>> THEN 0 ELSE offset[1]
  IN [limit |-> off + (IF limit = <<>> \/ limit[1] = 0 THEN max_limit ELSE limit[1]),
      offset |-> off,
      order_by |-> order_by]

\* The names QuerySet.order_by resolves on a model: pk, a field's name and
\* a column's attname.
OrderNames(model) ==
  {"pk"} \cup {field.name : field \in get_fields(model)}
         \cup {field.attname : field \in {f \in get_fields(model) : f.kind # "rel"}}

\* The value of a row under an order key: the column of the named field.
KeyOf(r, key) ==
  IF key.field = "pk" THEN r.id
  ELSE GetAttr(r, (CHOOSE field \in get_fields(r.model) :
                     key.field \in {field.name, field.attname}).attname)

\* Row a sorts strictly before row b under order_by.
RECURSIVE Before(_, _, _)
Before(a, b, order_by) ==
  IF order_by = <<>> THEN FALSE
  ELSE LET key == order_by[1]
       IN IF KeyOf(a, key) = KeyOf(b, key) THEN Before(a, b, Tail(order_by))
          ELSE IF key.desc THEN KeyOf(a, key) > KeyOf(b, key)
          ELSE KeyOf(a, key) < KeyOf(b, key)

\* The sequences the database may answer for rows under order_by: every
\* arrangement of the rows that respects the order (rows the order does not
\* tell apart come in any order).
Orderings(rows, order_by) ==
  {s \in [1..Cardinality(rows) -> rows] :
     /\ \A i, j \in DOMAIN s : i # j => s[i] # s[j]
     /\ \A i, j \in DOMAIN s : i < j => ~Before(s[j], s[i], order_by)}

\* search_filter: the Q object as [status__in, not_status], each <<>> when
\* the filter does not constrain it.  In the schema mode every search field
\* arrives as a keyword (None when absent); in the default mode the values
\* are read from the request and there are no keywords.
search_filter(node, in_schema, status__in) ==
  LET kwargs == IF in_schema THEN [status__in |-> status__in] ELSE <<>>
      query_values == IF in_schema THEN kwargs
                      ELSE IF status__in # <<>> THEN [status__in |-> status__in]
                      ELSE <<>>
  IN [status__in |-> IF "status__in" \in DOMAIN query_values
                       THEN query_values.status__in ELSE <<>>,
      not_status |-> IF /\ node.delete_status # None
                        /\ "status__in" \in DOMAIN kwargs
                        /\ kwargs.status__in = <<>>
                       THEN <<node.delete_status>> ELSE <<>>]

\* A row passes the Q object.
Matches(q, r) ==
  /\ q.status__in # <<>> => r.cols.status \in q.status__in[1]
  /\ q.not_status # <<>> => r.cols.status # q.not_status[1]

\* Pagination.query: an order_by name the model does not resolve
\* (FieldError).
UnknownField(node, order_by) ==
  \E k \in 1..Len(order_by) : order_by[k].field \notin OrderNames(node.model)

\* Pagination.query on the ordered rows: objects[offset:limit].
query(pagination, ordered) ==
  SubSeq(ordered, pagination.offset + 1,
         IF pagination.limit < Len(ordered) THEN pagination.limit ELSE Len(ordered))

\* The parts under item 1, each live (status 1) or deleted (status 3).
InitList ==
  /\ \E status \in [Ids -> {None, 1, NodeParts.delete_status}] :
       db = {Item(1, 1)}
            \cup {SetAttr(Part(i, 1, 1), "status", status[i]) :
                    i \in {j \in Ids : status[j] # None}}
  /\ nextId = MaxId + 1
  /\ call = [op |-> "none"]
  /\ ncalls = 0

\* GET /items/1/parts with its query parameters: the parameters are
\* validated, search_filter and get_pagination run as dependencies, and
\* endpoint_list returns objects_get_filtered.
ListRequest ==
  /\ ncalls = 0
  /\ ncalls' = 1
  /\ \E in_schema \in BOOLEAN, status__in \in {<<>>, <<{1}>>, <<{1, NodeParts.delete_status}>>},
        limit \in LimitParams, offset \in OffsetParams, order_by \in OrderBys :
       LET node == NodeParts
           access == [token |-> [aud |-> {}, crt |-> FALSE, ten |-> 1]]
           base == [op |-> "list", node |-> node, in_schema |-> in_schema,
                    status__in |-> status__in, limit |-> limit, offset |-> offset,
                    order_by |-> order_by]
       IN IF pagination_invalid(limit, offset, MaxLimit) \/ order_by_invalid(node, order_by)
            THEN call' = base @@ [err |-> "RequestValidationError",
                                  ordered |-> <<>>, items |-> <<>>]
          ELSE LET pagination == get_pagination(limit, offset, order_by, MaxLimit)
                   q == search_filter(node, in_schema, status__in)
                   qs == get_queryset(node, <<1>>, access, db)
                   rows == {r \in qs.rows : Matches(q, r)}
               IN IF UnknownField(node, order_by)
                    THEN call' = base @@ [err |-> "RequestValidationError",
                                          ordered |-> <<>>, items |-> <<>>]
                  ELSE \E ordered \in Orderings(rows, pagination.order_by) :
                         call' = base @@ [err |-> qs.err, ordered |-> ordered,
                                          items |-> query(pagination, ordered)]
  /\ UNCHANGED <<db, nextId>>

NextList == ListRequest

SpecList == InitList /\ [][NextList]_vars

IsList == call.op = "list"

\* The limit and offset a list request asks for, with their defaults.
AskedLimit == IF call.limit = <<>> THEN MaxLimit ELSE call.limit[1]
AskedOffset == IF call.offset = <<>> THEN 0 ELSE call.offset[1]

\* C22 (pagination window): a list request with a valid limit and offset
\* returns exactly the rows at positions offset+1 .. offset+limit of the
\* ordered result (fewer when the result ends earlier), the result being
\* in the requested order, for every order_by made of the node's order
\* fields; an order_by field the model does not have ends in a
\* request-validation error.
C22_PaginationWindow ==
  (IsList /\ ~pagination_invalid(call.limit, call.offset, MaxLimit)) =>
    IF UnknownField(call.node, call.order_by)
      THEN call.err = "RequestValidationError" /\ call.items = <<>>
    ELSE IF order_by_invalid(call.node, call.order_by)
      THEN call.err = "RequestValidationError"
    ELSE
      /\ call.err = ""
      /\ \A i, j \in 1..Len(call.ordered) :
           i < j => ~Before(call.ordered[j], call.ordered[i], call.order_by)
      /\ Len(call.items) <= AskedLimit
      /\ \A k \in 1..AskedLimit :
           IF AskedOffset + k <= Len(call.ordered)
             THEN k <= Len(call.items) /\ call.items[k] = call.ordered[AskedOffset + k]
             ELSE k > Len(call.items)

\* C22's case: a window that starts after the first row and ends before
\* the last row of the ordered result.
C22_Witness ==
  /\ IsList
  /\ call.err = ""
  /\ AskedOffset > 0
  /\ call.limit # <<>>
  /\ Len(call.ordered) > AskedOffset + AskedLimit
  /\ Len(call.items) = AskedLimit
  /\ call.items[1] = call.ordered[AskedOffset + 1]

\* C24 (soft-deleted rows are not listed): on a node with a delete status,
\* a list request without a status filter returns no row whose status is
\* the delete status, in either query-parameter mode.
C24_DeletedNotListed ==
  (IsList /\ call.err = "" /\ call.status__in = <<>> /\ call.node.delete_status # None) =>
    \A k \in 1..Len(call.ordered) : call.ordered[k].cols.status # call.node.delete_status

\* The instance a read returned, and a field of it (<<>> for None).
ReadValues == call.result.val[1].values
Stored(attname) == Opt(GetAttr(call.django_obj, attname))

\* C23 (branch collapse on read): a top-level transfer never yields None;
\* a nested branch under a nullable parent field is None exactly when a
\* required column-bound field of the branch reads null; a branch under a
\* parent field that is not nullable is always produced; and the enclosing
\* object keeps its other fields.
C23_BranchCollapse ==
  /\ (IsRead /\ call.cls = "OrderOut") => (call.result.err = "" /\ call.result.val # <<>>)
  /\ (IsRead /\ call.cls = "ShipmentOut") =>
       /\ call.result.err = ""
       /\ call.result.val # <<>>
       /\ DOMAIN ReadValues = {"id", "sender", "receiver"}
       /\ ReadValues.id = <<call.django_obj.id>>
       /\ ReadValues.sender = <<[cls |-> "AddressOut", values |-> [city |-> Stored("city")]]>>
       /\ ReadValues.receiver =
            IF Stored("city") = <<>> THEN <<>>
            ELSE <<[cls |-> "ContactOut",
                    values |-> [geo |-> <<[cls |-> "GeoOut", values |-> [pin |-> Stored("pin")]]>>,
                                city |-> Stored("city")]]>>

\* C23's case: the city column is null, so the optional receiver branch is
\* None while the required sender branch and the object itself are there.
C23_Witness ==
  /\ IsRead
  /\ call.cls = "ShipmentOut"
  /\ Stored("city") = <<>>
  /\ call.result.val # <<>>
  /\ ReadValues.receiver = <<>>
  /\ ReadValues.sender # <<>>

\* The root fields of the written schema that are bound to a column of the
\* root's model and carry scopes or the critical mark.
ProtectedColumns ==
  {f \in {Fields("OrderIn")[i] : i \in 1..Len(Fields("OrderIn"))} :
     f.kind \in {"column", "method"} /\ (f.scopes # <<>> \/ f.is_critical)}

\* The stored row of the instance the call was applied to, in database d.
RootRow(d) == {r \in d : r.model = "Order" /\ r.id = call.django_obj.id}

\* C25 (protected columns keep their value): a transfer_to_orm call with an
\* access context leaves the stored value of every column bound to a
\* scope-protected or critical field as it was, unless the token is
\* permitted the field; also when the field was left unset in a full
\* update.
C25_ProtectedColumnsKept ==
  (IsTransfer /\ call.c.args.access # <<>> /\ RootRow(call.before) # {}) =>
    \A f \in ProtectedColumns :
      \A old \in RootRow(call.before), new \in RootRow(db) :
        new.cols[f.attname] # old.cols[f.attname]
          => Permitted(f, call.c.args.access[1])

\* The stored lines and links that belonged to another order than the one
\* the call was applied to.
ForeignRows ==
  {r \in call.before : r.model \in {"Line", "Link"} /\ r.cols.order_id # call.django_obj.id}

\* C26 (other parents' rows are left alone): a CREATE or SYNC transfer
\* leaves every stored row related to another parent as it was, parent and
\* field values, also when an incoming element carries that row's id.
C26_OtherParentsRowsKept ==
  ((Ran(CREATE) \/ Ran(SYNC)) /\ call.err = "") => ForeignRows \subseteq db

\* The parent row a request on a nested node names in its path, as far as
\* the caller can see it: tenant-filtered, through the parent's queryset.
VisibleParent ==
  IF call.node.parent = <<>> THEN {}
  ELSE {r \in get_queryset(call.node.parent[1], <<>>,
                           [token |-> [aud |-> {}, crt |-> FALSE, ten |-> call.ten]],
                           call.before).rows : r.id = call.ids[1]}

\* C27 (nested create needs its parent): a POST on a nested node persists a
\* row only if the parent in the path exists and is visible to the caller;
\* otherwise it ends in NotFound and storage is unchanged.
C27_NestedCreateNeedsParent ==
  (IsRequest /\ call.method = "post" /\ call.node.parent # <<>> /\ VisibleParent = {})
    => /\ call.status_code = NotFoundStatus
       /\ db = call.before

\* C28 (a secured node has no open endpoint): whenever the node or one of
\* its ancestors declares a security mechanism, the endpoint takes the
\* access parameter, whether or not any scopes are declared for its method.
C28_SecuredNodeRequiresToken ==
  (IsSecurity /\ Securing # {}) => call.signature # <<>>

\* The set root fields of the checked input whose value is a nested schema.
SetBranches ==
  {f \in {Fields(call.input.cls)[i] : i \in 1..Len(Fields(call.input.cls))} :
     f.name \in call.input.set /\ IsDict(f, call.input.val[f.name])}

\* C29 (annotations on non-leaf fields): a set field whose value is a
\* nested schema is checked like a scalar field: when the token is not
\* permitted the field, check_field_access raises.
C29_BranchAnnotationsEnforced ==
  IsCheck =>
    \A f \in SetBranches : ~Permitted(f, call.token) => call.result.code # ""

\* C30 (request signals are paired): every invocation of a generated
\* endpoint sends request_started and then exactly one request_finished,
\* whether the handler returns or raises.
C30_SignalsPaired ==
  IsRequest => call.signals = <<"request_started", "request_finished">>

====
